---- MODULE Spec2Model ----
(***************************************************************************)
(* Call-tree reconstruction of soldb: TransactionTracer.analyze_function_  *)
(* calls (src/src/soldb/transaction_tracer.py) run over EVM execution      *)
(* traces.  The trace is produced step by step by a small model of the     *)
(* EVM's call discipline (what debug_traceTransaction can report), then    *)
(* the pass is run over it twice with the same tracer object.              *)
(***************************************************************************)
EXTENDS Integers, Sequences, FiniteSets, TLC

(* ---------------- bounds ---------------- *)
MaxSteps == 5          \* longest trace generated

(* ---------------- values ---------------- *)
None == -1             \* Python None in an integer-valued field
NoAddr == "none"       \* Python None in an address-valued field
InitGas == 2 * MaxSteps + 2
ExternalTypes == {"CALL", "DELEGATECALL", "STATICCALL"}   \* lines 1404, 1423
CreateOps == {"CREATE", "CREATE2"}                        \* line 1478
ExitOps == {"RETURN", "REVERT", "STOP"}                   \* line 1653
Registry == {"A", "B"}         \* contracts with debug info loaded (multi-contract mode)
\* What the EVM side puts in a trace.  DELEGATECALL and STATICCALL take the
\* branches of CALL, CREATE2 those of CREATE and STOP those of RETURN in the
\* pass, so one opcode of each family is traced.
Target == "B"                  \* the address a CALL step names
Pcs == {1, 2}                  \* program counters of JUMPDEST steps

VARIABLES
    \* --- the transaction and the tracer session (inputs) ---
    trace,                  \* TransactionTrace.steps
    to_addr,                \* TransactionTrace.to_addr ("none": contract creation)
    has_selector,           \* input_data holds at least a 4-byte selector
    multi_contract_parser,  \* TRUE when a MultiContractETHDebugParser is set
    function_abis,          \* names of the functions whose ABI load_abi has read
    ethdebug_info,          \* self.ethdebug_info / self.ethdebug_parser: whose debug info is active
    \* --- the EVM producing the trace ---
    evm,                    \* stack of running executions [code, retained]
    evm_gas,                \* gas remaining before the next step
    \* --- analyze_function_calls locals ---
    at,                     \* position: "evm", "analyze", "loop", "end", "post", "returned", "raised"
    pass,                   \* 1: first call, 2: second call on the same trace
    i,                      \* loop index over trace.steps
    frames,                 \* the FunctionCall objects, by call_id + 1
    function_calls,         \* list of call_ids, in list order
    call_stack,             \* list of call_ids
    next_call_id,
    current_contract,
    current_depth,
    context_stack,
    revert_already_marked,
    prev_depth,
    \* --- what the first call returned ---
    first_result,
    \* --- objects and functions the pass does not go through ---
    pure_call,              \* a call of a module-level function or method: its name and arguments
    pure_result,            \* what that call returned
    execution_stack,        \* MultiContractETHDebugParser.execution_stack
    \* --- the interactive stepper (EVMDebugger) ---
    current_step,           \* EVMDebugger.current_step (None after a run that took it from the main frame)
    breakpoints,            \* EVMDebugger.breakpoints: a set of PCs
    source_map              \* EVMDebugger.source_map: the PCs it maps to a line

vars == <<trace, to_addr, has_selector, multi_contract_parser, function_abis, ethdebug_info,
          evm, evm_gas, at, pass, i, frames, function_calls, call_stack,
          next_call_id, current_contract, current_depth, context_stack,
          revert_already_marked, prev_depth, first_result,
          pure_call, pure_result, execution_stack,
          current_step, breakpoints, source_map>>

aside == <<pure_call, pure_result, execution_stack, current_step, breakpoints, source_map>>
inputs == <<to_addr, has_selector, multi_contract_parser, function_abis, aside>>
locals == <<i, frames, function_calls, call_stack, next_call_id,
            current_contract, current_depth, context_stack,
            revert_already_marked, prev_depth>>

Max(a, b) == IF a > b THEN a ELSE b
Min(a, b) == IF a < b THEN a ELSE b
Last(s) == s[Len(s)]
Front(s) == SubSeq(s, 1, Len(s) - 1)

\* No function has been called aside of the pass and no context pushed.
NoCall == [fn |-> "none"]
NoResult == [returned |-> FALSE]
NothingAside ==
    /\ pure_call = NoCall /\ pure_result = NoResult /\ execution_stack = <<>>
    /\ current_step = 0 /\ breakpoints = {} /\ source_map = {}

(***************************************************************************)
(* The EVM side: one TraceStep is appended per action.                     *)
(***************************************************************************)
EvmOnly == UNCHANGED <<inputs, ethdebug_info, pass, locals, first_result>>

\* A stack word is held as its numeric value.  WordA and WordB are the
\* words of the addresses A and B; words below 4096 are small integers.
WordA == 43690
WordB == 48059
WordOf(address) == IF address = "A" THEN WordA ELSE IF address = "B" THEN WordB ELSE 0

\* The operand stack of a step, bottom first (stack[-1] is the last
\* element): for a CALL the target is the second word from the top.
OperandStack(stack_len, target) ==
    [k \in 1..stack_len |-> IF k = stack_len - 1 THEN WordOf(target) ELSE 0]

\* Memory is a sequence of 4-byte cells, eight to a 32-byte word; the steps
\* traced here have no memory yet and pass no call data.
TraceStep(op, stack_len, target, jpc) ==
    [op |-> op, depth |-> Len(evm), gas |-> evm_gas, pc |-> jpc,
     stack |-> OperandStack(stack_len, target), memory |-> <<>>]

\* Room left for every running execution to end inside the bound.
Room(opened) == Len(trace) + 1 + Len(evm) + opened <= MaxSteps

\* The running execution ends; its caller resumes with what is handed back.
EvmEnd(handed_back) ==
    /\ evm' = Front(evm)
    /\ evm_gas' = handed_back + Last(evm).retained
    /\ at' = IF Len(evm) = 1 THEN "analyze" ELSE "evm"

\* An ordinary instruction that opens nothing: a JUMPDEST, or a PUSH20 met
\* with values on the stack.
EvmPlain ==
    /\ at = "evm" /\ evm_gas >= 1 /\ Room(0)
    /\ \E s \in {TraceStep("JUMPDEST", 7, NoAddr, p) : p \in Pcs}
               \cup {TraceStep("PUSH20", 7, NoAddr, 0)} :
          trace' = Append(trace, s)
    /\ evm_gas' = evm_gas - 1
    /\ UNCHANGED <<evm, at>>
    /\ EvmOnly

\* The gas a caller keeps back when it hands gas to a callee (the EVM keeps
\* one 64th; the model, with its small amounts, one 4th).
Retained == (evm_gas - 1) \div 4

\* CALL with its operands on the stack and the callee running.
EvmCall ==
    /\ at = "evm" /\ evm_gas >= 1 /\ Room(1)
    /\ trace' = Append(trace, TraceStep("CALL", 7, Target, 0))
    /\ evm' = Append(evm, [code |-> Target, retained |-> Retained])
    /\ evm_gas' = evm_gas - 1 - Retained
    /\ UNCHANGED at
    /\ EvmOnly

\* CREATE with its operands on the stack and the constructor running.
EvmCreate ==
    /\ at = "evm" /\ evm_gas >= 1 /\ Room(1)
    /\ trace' = Append(trace, TraceStep("CREATE", 7, NoAddr, 0))
    /\ evm' = Append(evm, [code |-> "N", retained |-> Retained])
    /\ evm_gas' = evm_gas - 1 - Retained
    /\ UNCHANGED at
    /\ EvmOnly

\* A CALL that fails at once (no code at the target, not enough balance):
\* the instruction is traced and the caller goes on at the same depth.
EvmCallFails ==
    /\ at = "evm" /\ evm_gas >= 1 /\ Room(0)
    /\ trace' = Append(trace, TraceStep("CALL", 7, Target, 0))
    /\ evm_gas' = evm_gas - 1
    /\ UNCHANGED <<evm, at>>
    /\ EvmOnly

\* RETURN or REVERT: the execution ends and hands its gas back.
EvmExit ==
    /\ at = "evm"
    /\ \E op \in {"RETURN", "REVERT"} : trace' = Append(trace, TraceStep(op, 7, NoAddr, 0))
    /\ EvmEnd(evm_gas)
    /\ EvmOnly

\* An exceptional halt: a CALL met with too few operands on the stack (stack
\* underflow).  The step is traced, all gas of the execution is lost and the
\* execution ends without RETURN, REVERT or STOP.
EvmFault ==
    /\ at = "evm"
    /\ trace' = Append(trace, TraceStep("CALL", 0, Target, 0))
    /\ EvmEnd(0)
    /\ EvmOnly

(***************************************************************************)
(* The tracer side: analyze_function_calls.                                *)
(***************************************************************************)
FunctionCall(name, entry_step, exit_step, gas_used, depth, call_type, contract_address) ==
    [name |-> name, entry_step |-> entry_step, exit_step |-> exit_step,
     gas_used |-> gas_used, depth |-> depth, call_type |-> call_type,
     contract_address |-> contract_address, call_id |-> 0,
     caused_revert |-> FALSE, parent_call_id |-> None,
     children_call_ids |-> <<>>, args |-> <<>>, selector |-> None,
     return_value |-> None]

\* ETHDebugParser.get_source_context + _extract_function_name: the function
\* declared on the source line a program counter maps to, under the debug
\* info of one contract ("" when the line declares none).
FunctionAt(info, jpc) ==
    IF info = NoAddr THEN ""
    ELSE IF jpc = 1 THEN "f" ELSE IF jpc = 2 THEN "g"
    ELSE IF jpc = 3 THEN "increment" ELSE IF jpc = 4 THEN "add"
    ELSE IF jpc = 5 THEN "store" ELSE ""

\* Lines 283-291; info is self.ethdebug_info (and its parser) at the time
\* of the call.
get_source_context_for_step(step, address, info) ==
    IF multi_contract_parser /\ address # NoAddr
        THEN (IF address \in Registry THEN FunctionAt(address, step.pc) ELSE "")
    ELSE IF info # NoAddr
        THEN FunctionAt(info, step.pc)
    ELSE ""

_create_dispatcher_call ==
    LET is_creation == to_addr = NoAddr
        contract_name ==
            IF multi_contract_parser /\ to_addr # NoAddr
                THEN (IF to_addr \in Registry THEN to_addr ELSE "Contract")
            ELSE IF ethdebug_info # NoAddr THEN ethdebug_info
            ELSE "Contract"
    IN FunctionCall(<<contract_name, IF is_creation THEN "constructor" ELSE "runtime_dispatcher">>,
                    0, Len(trace) - 1, InitGas - evm_gas, 0, "entry",
                    IF is_creation THEN "N" ELSE to_addr)

MainName == <<"main">>

\* Lines 1309-1393: fresh locals, the dispatcher frame and, when the input
\* data carries a selector, the main function frame.
Begin ==
    /\ at = "analyze"
    /\ LET dispatcher_call == _create_dispatcher_call
           main_call == [FunctionCall(MainName, None, None, 0, 1, "external", NoAddr)
                            EXCEPT !.call_id = 1, !.parent_call_id = 0]
       IN IF has_selector
             THEN /\ frames' = <<[dispatcher_call EXCEPT !.children_call_ids = <<1>>], main_call>>
                  /\ function_calls' = <<0, 1>>
                  /\ call_stack' = <<0, 1>>
                  /\ next_call_id' = 2
             ELSE /\ frames' = <<dispatcher_call>>
                  /\ function_calls' = <<0>>
                  /\ call_stack' = <<0>>
                  /\ next_call_id' = 1
    /\ current_contract' = to_addr
    /\ current_depth' = 1
    /\ context_stack' = <<>>
    /\ revert_already_marked' = FALSE
    /\ prev_depth' = 0
    /\ i' = 0
    /\ at' = "loop"
    /\ UNCHANGED <<trace, inputs, ethdebug_info, evm, evm_gas, pass, first_result>>

\* The step the loop is at (trace.steps[i]).
Step == trace[i + 1]
Gas(k) == trace[k + 1].gas
RemoveAt(s, j) == SubSeq(s, 1, j - 1) \o SubSeq(s, j + 1, Len(s))

\* Positions of call_stack holding a CALL/DELEGATECALL/STATICCALL frame.
ExternalAt(fr, cs) == {j \in 1..Len(cs) : fr[cs[j] + 1].call_type \in ExternalTypes}
MaxOf(S) == CHOOSE x \in S : \A y \in S : y <= x

\* The context restore of lines 1410-1418 and 1669-1677.
Restore(st) ==
    IF st.context_stack # <<>>
        THEN [st EXCEPT !.context_stack = Front(st.context_stack),
                        !.current_contract = Last(st.context_stack).contract,
                        !.current_depth = Last(st.context_stack).depth,
                        !.ethdebug_info = Last(st.context_stack).ethdebug_info]
        ELSE st

\* Lines 1399-1421, run at the top of every iteration: when the EVM depth has
\* dropped, the most recent external-call frame on call_stack is closed at
\* the previous step and the saved context is restored.
DepthDecrease ==
    LET st == [frames |-> frames, call_stack |-> call_stack,
               context_stack |-> context_stack,
               current_contract |-> current_contract,
               current_depth |-> current_depth,
               ethdebug_info |-> ethdebug_info]
        js == ExternalAt(frames, call_stack)
    IN IF i > 0 /\ Step.depth < prev_depth /\ js # {}
          THEN LET j == MaxOf(js)
                   id == call_stack[j]
               IN Restore([st EXCEPT
                      !.frames[id + 1].exit_step = i - 1,
                      !.frames[id + 1].gas_used = Gas(frames[id + 1].entry_step) - Gas(i - 1),
                      !.call_stack = RemoveAt(call_stack, j)])
          ELSE st

\* End of an iteration: the loop goes on, or the steps are used up.
Advance ==
    /\ prev_depth' = Step.depth
    /\ i' = i + 1
    /\ at' = IF i + 1 = Len(trace) THEN "end" ELSE "loop"

Commit(st) ==
    /\ frames' = st.frames
    /\ call_stack' = st.call_stack
    /\ context_stack' = st.context_stack
    /\ current_contract' = st.current_contract
    /\ current_depth' = st.current_depth
    /\ ethdebug_info' = st.ethdebug_info

PassOnly == UNCHANGED <<trace, inputs, evm, evm_gas, pass, first_result>>

\* insert_call_sorted (lines 1321-1335), on the list of call_ids.
insert_call_sorted(fr, fcs, id) ==
    LET later == {k \in 1..Len(fcs) : /\ fr[fcs[k] + 1].entry_step # None
                                       /\ fr[fcs[k] + 1].entry_step > fr[id + 1].entry_step}
        pos == IF later = {} THEN Len(fcs) + 1 ELSE CHOOSE k \in later : \A m \in later : k <= m
    IN IF fr[id + 1].entry_step = None THEN Append(fcs, id)
       ELSE SubSeq(fcs, 1, pos - 1) \o <<id>> \o SubSeq(fcs, pos, Len(fcs))

AddChild(fr, parent, child) ==
    [fr EXCEPT ![parent + 1].children_call_ids = Append(@, child)]

\* Lines 1426-1457 and 1501-1502, 1619-1648: the new frame gets its id and
\* its parent, and is entered in some frame's children_call_ids.  fr already
\* holds the new frame at the end.
LinkParent(fr, cs, id) ==
    LET call == fr[id + 1]
        mains == {k \in 1..Len(cs) : fr[cs[k] + 1].depth = 1 /\ fr[cs[k] + 1].call_type = "external"}
        below == {k \in 1..Len(cs) : call.depth > fr[cs[k] + 1].depth}
    IN IF cs = <<>> THEN fr
       ELSE IF call.depth = 1 /\ Len(cs) > 1
          THEN (IF mains # {}
                   THEN LET main_func == cs[CHOOSE k \in mains : \A m \in mains : k <= m]
                        IN AddChild([fr EXCEPT ![id + 1].parent_call_id = main_func], main_func, id)
                   ELSE AddChild(fr, Last(cs), id))
       ELSE IF call.depth > fr[Last(cs) + 1].depth
          THEN AddChild(fr, Last(cs), id)
       ELSE IF below # {}
          THEN AddChild(fr, cs[MaxOf(below)], id)
       ELSE fr

\* A new frame numbered by the height of call_stack.
NewFrame_IdFromStack(st, call) ==
    Append(st.frames, [call EXCEPT !.call_id = Len(st.call_stack),
                                   !.parent_call_id = IF st.call_stack = <<>> THEN None
                                                      ELSE Last(st.call_stack)])

\* Lines 1426-1427, 1480-1481, 1501-1502: the frame takes next_call_id.
NewFrame(st, call) ==
    Append(st.frames, [call EXCEPT !.call_id = next_call_id,
                                   !.parent_call_id = IF st.call_stack = <<>> THEN None
                                                      ELSE Last(st.call_stack)])

SavedContext(st) ==
    [contract |-> st.current_contract, depth |-> st.current_depth,
     ethdebug_info |-> st.ethdebug_info]

\* stack[-n] of a step.
FromTop(step, n) == step.stack[Len(step.stack) - n + 1]

\* extract_address_from_stack (lines 334-349): the low 20 bytes of the word,
\* written as an address.  A and B are the addresses of the session; a
\* small word gives the address made of that small integer.
extract_address_from_stack(stack_value) ==
    CASE stack_value = WordA -> "A"
      [] stack_value = WordB -> "B"
      [] stack_value = 0 -> "0x00"
      [] stack_value = 32 -> "0x20"
      [] stack_value = 64 -> "0x40"
      [] OTHER -> "0x??"

\* int(hex, 16) of a run of cells: the last cell when the cells before it
\* are zero, and a value beyond every small integer otherwise.
WordValue(cells) ==
    IF cells = <<>> THEN 0
    ELSE IF \A k \in 1..(Len(cells) - 1) : cells[k] = 0 THEN Last(cells)
    ELSE 2^30

\* memory_bytes[from:to] on cells, with Python's clamping of slice bounds.
Slice(memory, from, to) == SubSeq(memory, Min(from, Len(memory)) + 1, Min(to, Len(memory)))

\* A reading of the return-data operands (stack[-6], stack[-7]) in place of
\* the argument operands.
extract_calldata_from_step_ReturnOperands(step) ==
    IF Len(step.stack) < 7 \/ step.memory = <<>> THEN <<>>
    ELSE LET ret_offset == FromTop(step, 6)
             ret_size == FromTop(step, 7)
         IN Slice(step.memory, ret_offset \div 4, (ret_offset + ret_size) \div 4)

\* extract_calldata_from_step (lines 390-413): the bytes of memory from
\* stack[-4], stack[-5] of them.  None and the empty call data, which the
\* caller treats alike, are both the empty sequence.
extract_calldata_from_step(step) ==
    IF Len(step.stack) < 7 \/ step.memory = <<>> THEN <<>>
    ELSE LET args_offset == FromTop(step, 4)
             args_size == FromTop(step, 5)
         IN Slice(step.memory, args_offset \div 4, (args_offset + args_size) \div 4)

\* The ABI files of the session (load_abi, lines 743-771): the functions of
\* the called contract, their inputs, and the selector of each signature.
\* AbiFunctions are the functions with parameters of integer types only;
\* store(string note, uint256 amount) is read in the sessions on parameter
\* types.
AbiFunctions == {"increment", "add"}
AbiFunctionsWithString == AbiFunctions \cup {"store"}
AbiInputs(name) ==
    IF name = "increment" THEN <<[name |-> "amount", type |-> "uint256"]>>
    ELSE IF name = "add"
        THEN <<[name |-> "amount", type |-> "uint256"], [name |-> "step", type |-> "uint256"]>>
    ELSE <<[name |-> "note", type |-> "string"], [name |-> "amount", type |-> "uint256"]>>
AbiTypes(name) ==
    IF name = "increment" THEN "(uint256)"
    ELSE IF name = "add" THEN "(uint256,uint256)" ELSE "(string,uint256)"
SelectorOf(name) == IF name = "increment" THEN 161 ELSE IF name = "add" THEN 173 ELSE 186

\* The ABI types encoded with a head word pointing at a tail (length word,
\* then the bytes).
IsDynamicType(type) == type \in {"string", "bytes"}

\* The k-th 32-byte word of the parameter data.
WordAt(param_data, k) == SubSeq(param_data, 8 * (k - 1) + 1, 8 * k)

\* The 32-byte words the bytes of a tail take.
TailWords(len) == (len + 31) \div 32

\* eth_abi.decode (line 838) raises unless the data holds the head word of
\* every input and, for every dynamic input, the length word and the bytes
\* its head word points at.
eth_abi_decodes(inputs_, param_data) ==
    /\ Len(param_data) >= 8 * Len(inputs_)
    /\ \A k \in 1..Len(inputs_) :
          IsDynamicType(inputs_[k].type) =>
              LET tail == WordValue(WordAt(param_data, k)) \div 4
              IN /\ tail + 8 <= Len(param_data)
                 /\ tail + 8 + 8 * TailWords(WordValue(SubSeq(param_data, tail + 1, tail + 8)))
                       <= Len(param_data)

\* The value eth_abi gives one input: the number of a static word; for a
\* string (of at most four bytes here) the bytes at its tail, held as the
\* number of their cell, and 0 for the empty string.
eth_abi_value(inputs_, param_data, k) ==
    IF IsDynamicType(inputs_[k].type)
       THEN LET tail == WordValue(WordAt(param_data, k)) \div 4
            IN IF WordValue(SubSeq(param_data, tail + 1, tail + 8)) = 0 THEN 0
               ELSE param_data[tail + 9]
    ELSE WordValue(WordAt(param_data, k))

\* decode_function_parameters (lines 795-889): eth_abi decodes every input
\* when the data holds them all; when it raises, the fallback of lines
\* 866-885 gives the inputs whose head word is there the value of that word
\* (for a string, the hex of the word, which spells the same number).  With
\* no data at all there are no parameters.
decode_function_parameters(name, param_data) ==
    LET inputs_ == AbiInputs(name)
        n == Min(Len(inputs_), Len(param_data) \div 8)
    IN IF param_data # <<>> /\ eth_abi_decodes(inputs_, param_data)
          THEN [k \in 1..Len(inputs_) |-> <<inputs_[k].name, eth_abi_value(inputs_, param_data, k)>>]
       ELSE [k \in 1..n |-> <<inputs_[k].name, WordValue(WordAt(param_data, k))>>]

\* _process_external_call (lines 1884-1932); HasCallOperands is its guard
\* len(step.stack) >= 7, without which it returns None.  The name is kept
\* in its parts: opcode, contract, function name, parameter types.  The
\* 4byte directory lookup of line 1913 finds nothing.
HasCallOperands(step) == Len(step.stack) >= 7

_process_external_call(step, step_idx, cur_contract, cur_depth) ==
    LET to_addr_ == extract_address_from_stack(FromTop(step, 2))
        calldata == extract_calldata_from_step(step)
        selector == IF calldata = <<>> THEN None ELSE calldata[1]
        known == {name \in function_abis : SelectorOf(name) = selector}
        func == IF known # {} THEN CHOOSE name \in known : TRUE ELSE ""
        func_name == IF selector = None THEN <<"function_0x", "">>
                     ELSE IF known # {} THEN <<func, AbiTypes(func)>>
                     ELSE <<"function_selector", "">>
        decoded_params == IF known # {} THEN decode_function_parameters(func, Tail(calldata))
                          ELSE <<>>
    IN [FunctionCall(<<step.op, to_addr_, func_name[1], func_name[2]>>, step_idx, None, 0,
                     cur_depth + 1, step.op, to_addr_)
           EXCEPT !.args = decoded_params, !.selector = selector]

\* Lines 1423-1476: a CALL, DELEGATECALL or STATICCALL step.
StepExternalCall ==
    /\ at = "loop" /\ Step.op \in ExternalTypes
    /\ LET st == DepthDecrease
           id == next_call_id
       IN IF HasCallOperands(Step)
             THEN LET call == _process_external_call(Step, i, st.current_contract, st.current_depth)
                      fr == LinkParent(NewFrame(st, call), st.call_stack, id)
                  IN /\ frames' = fr
                     /\ next_call_id' = next_call_id + 1
                     /\ function_calls' = insert_call_sorted(fr, function_calls, id)
                     /\ call_stack' = Append(st.call_stack, id)
                     /\ context_stack' = Append(st.context_stack, SavedContext(st))
                     /\ current_contract' = call.contract_address
                     /\ current_depth' = st.current_depth + 1
                     /\ ethdebug_info' =
                            IF multi_contract_parser /\ call.contract_address \in Registry
                               THEN call.contract_address ELSE st.ethdebug_info
             ELSE /\ Commit(st)
                  /\ UNCHANGED <<next_call_id, function_calls>>
    /\ Advance
    /\ UNCHANGED revert_already_marked
    /\ PassOnly

\* _process_create_call (lines 1934-1985): 3 operands for CREATE, 4 for CREATE2.
HasCreateOperands(step) == Len(step.stack) >= (IF step.op = "CREATE" THEN 3 ELSE 4)

\* _extract_created_address (lines 1987-1997) scans the steps after the
\* CREATE for a PUSH20 with a non-empty stack and hands a one-element list
\* to extract_address_from_stack, whose first statement calls .startswith
\* on its argument: an AttributeError.  TRUE when the scan meets such a step.
LookaheadLast(create_step_idx) == Min(create_step_idx + 10, Len(trace)) - 1

_extract_created_address_raises(create_step_idx) ==
    \E k \in (create_step_idx + 1)..LookaheadLast(create_step_idx) :
        trace[k + 1].op = "PUSH20" /\ trace[k + 1].stack # <<>>

\* When it does not raise, no step matched and the address is None.  The
\* arguments are the value operand and, for CREATE2, the salt; the traced
\* steps have no memory to take init code from.
_process_create_call(step, step_idx, cur_contract, cur_depth) ==
    [FunctionCall(<<step.op, "NewContract">>, step_idx, None, 0, cur_depth + 1,
                  step.op, NoAddr)
        EXCEPT !.args = <<<<"value", FromTop(step, 1)>>>>
                         \o (IF step.op = "CREATE2"
                                THEN <<<<"salt", FromTop(step, 4)>>>> ELSE <<>>)]

\* Lines 1478-1496: a CREATE or CREATE2 step.
StepCreate ==
    /\ at = "loop" /\ Step.op \in CreateOps
    /\ LET st == DepthDecrease
           id == next_call_id
       IN IF ~HasCreateOperands(Step)
             THEN /\ Commit(st)
                  /\ UNCHANGED <<next_call_id, function_calls>>
                  /\ Advance
          ELSE IF _extract_created_address_raises(i)
             THEN /\ Commit(st)
                  /\ UNCHANGED <<next_call_id, function_calls, i>>
                  /\ prev_depth' = Step.depth
                  /\ at' = "raised"
          ELSE LET call == _process_create_call(Step, i, st.current_contract, st.current_depth)
                   fr0 == NewFrame(st, call)
                   fr == IF st.call_stack = <<>> THEN fr0
                         ELSE AddChild(fr0, Last(st.call_stack), id)
               IN /\ frames' = fr
                  /\ next_call_id' = next_call_id + 1
                  /\ function_calls' = insert_call_sorted(fr, function_calls, id)
                  /\ call_stack' = Append(st.call_stack, id)
                  /\ context_stack' = Append(st.context_stack, SavedContext(st))
                  /\ current_depth' = st.current_depth + 1
                  /\ current_contract' = st.current_contract
                  /\ ethdebug_info' = st.ethdebug_info
                  /\ Advance
    /\ UNCHANGED revert_already_marked
    /\ PassOnly

\* A check of the frame on top of call_stack only.
already_open_TopOnly(st, func_name) ==
    /\ st.call_stack # <<>>
    /\ LET fc == st.frames[Last(st.call_stack) + 1]
       IN /\ fc.name = <<func_name>>
          /\ fc.contract_address = st.current_contract
          /\ fc.exit_step = None

\* _detect_internal_call (lines 1773-1805): the function name found for the
\* step, unless a frame of that name and contract is still open on call_stack.
already_open(st, func_name) ==
    \E k \in 1..Len(st.call_stack) :
        LET fc == st.frames[st.call_stack[k] + 1]
        IN /\ fc.name = <<func_name>>
           /\ fc.contract_address = st.current_contract
           /\ fc.exit_step = None

DetectsInternalCall(st) ==
    LET func_name == get_source_context_for_step(Step, st.current_contract, st.ethdebug_info)
    IN func_name # "" /\ ~already_open(st, func_name)

_detect_internal_call(st) ==
    FunctionCall(<<get_source_context_for_step(Step, st.current_contract, st.ethdebug_info)>>,
                 i, None, 0, Len(st.call_stack), "internal", st.current_contract)

\* A raw value is the hex string of one EVM word, held as the number it
\* spells.  The word is scaled from 32 bytes to WordBytes bytes: uint256,
\* int256 and bytes32 fill the word, an address fills all but its highest
\* byte, and int8 and uint8 are the types narrower than the word.
WordBytes == 2
WordBits == 8 * WordBytes
AddressBits == WordBits - 8

\* Line 1048: bits = int(param_type[3:]).
TypeBits(param_type) == IF param_type \in {"int8", "uint8"} THEN 8 ELSE WordBits

\* Line 1060: the text "<string at 0x...>" naming the word, held as a
\* negative number apart from every word and from None.
StringAt(raw_value) == -(raw_value + 2)

\* decode_value (lines 1031-1067) of a non-empty raw value.  An unsigned
\* integer is the number the word spells; a signed integer is that number,
\* less 2^bits when it is 2^(bits-1) or more; an address is spelled by the
\* last 40 hex digits; a bool is whether the number is not 0; a string is
\* the text naming the word; bytes32 and any other type keep the hex string.
decode_value(raw_value, param_type) ==
    IF param_type \in {"uint256", "uint8"} THEN raw_value
    ELSE IF param_type \in {"int256", "int8"}
       THEN (IF raw_value >= 2^(TypeBits(param_type) - 1)
                THEN raw_value - 2^TypeBits(param_type)
             ELSE raw_value)
    ELSE IF param_type = "address" THEN raw_value % 2^AddressBits
    ELSE IF param_type = "bool" THEN raw_value # 0
    ELSE IF param_type = "string" THEN StringAt(raw_value)
    ELSE raw_value

\* ETHDebugInfo.get_variables_at_pc: the variable locations valid at a
\* program counter.  At the declarations of increment, add and store the
\* debug info places the parameter amount in the stack slot of offset 0.
get_variables_at_pc(info, jpc) ==
    IF info # NoAddr /\ jpc \in {3, 4, 5}
       THEN <<[name |-> "amount", location_type |-> "stack", offset |-> 0]>>
    ELSE <<>>

\* find_parameter_value_from_ethdebug (lines 949-1029) with the locations
\* above, all of the kind "stack": the value decoded from
\* step.stack[offset] of the first location of the parameter's name whose
\* offset is inside the stack, None when there is none.
find_parameter_value_from_ethdebug(step, info, param_name, param_type) ==
    LET var_locations == get_variables_at_pc(info, step.pc)
        found == {k \in 1..Len(var_locations) :
                     /\ var_locations[k].name = param_name
                     /\ var_locations[k].offset < Len(step.stack)}
    IN IF info = NoAddr \/ found = {} THEN None
       ELSE LET k == CHOOSE x \in found : \A y \in found : x <= y
            IN decode_value(step.stack[var_locations[k].offset + 1], param_type)

\* Lines 1503-1513: with debug info, a detected call that is not of the
\* type "internal" gets its arguments from the ETHDebug locations.
ArgsFromEthdebug(st, call, step) ==
    IF st.ethdebug_info # NoAddr /\ call.call_type # "internal" /\ call.name[1] \in function_abis
       THEN [k \in 1..Len(AbiInputs(call.name[1])) |->
               <<AbiInputs(call.name[1])[k].name,
                 find_parameter_value_from_ethdebug(step, st.ethdebug_info,
                     AbiInputs(call.name[1])[k].name, AbiInputs(call.name[1])[k].type)>>]
    ELSE call.args

\* Line 1524: the function name inside the name of an external-call frame.
FunctionNameOf(name) == name[3]

ArgNames(args) == {args[k][1] : k \in 1..Len(args)}
ArgValue(args, name) == args[CHOOSE k \in 1..Len(args) : args[k][1] = name][2]

\* An internal frame that takes over every argument of any external-call
\* frame on top of call_stack, whatever function that frame calls.
InheritsFrom_AnyExternalCall(parent_call, call) ==
    /\ parent_call.call_type \in ExternalTypes
    /\ parent_call.args # <<>>

\* Lines 1522-1524: the frame on top of call_stack hands its arguments down
\* when it is an external call, has arguments, and calls the function the
\* internal frame is named after.
InheritsFrom(parent_call, call) ==
    /\ parent_call.call_type \in ExternalTypes
    /\ parent_call.args # <<>>
    /\ FunctionNameOf(parent_call.name) = call.name[1]

\* A function none of whose parameters counts as complex.
has_complex_types_Never(name) == FALSE

\* Lines 1543-1551: a parameter of a tuple or array type, a string or bytes.
has_complex_types(name) ==
    \E k \in 1..Len(AbiInputs(name)) :
        AbiInputs(name)[k].type \in {"tuple", "uint256[]", "string", "bytes"}

\* Lines 1516-1618: the arguments of a new internal frame.  Without an ABI
\* entry of its name, or with an empty stack at the step, it has none.  With
\* both and a complex parameter type, the inputs take the inherited value of
\* their name or None when something is inherited, and the frame has no
\* arguments when nothing is.  With both and no complex type, each input
\* takes the inherited value of its name when there is one and else the
\* word at stack[len - 1 - k], k the input's index from 0.
InternalArgs(st, call, step) ==
    LET inherited_args ==
            IF st.call_stack # <<>> /\ InheritsFrom(st.frames[Last(st.call_stack) + 1], call)
               THEN st.frames[Last(st.call_stack) + 1].args ELSE <<>>
        inputs_ == AbiInputs(call.name[1])
    IN IF call.name[1] \notin function_abis \/ step.stack = <<>> THEN <<>>
       ELSE IF has_complex_types(call.name[1])
          THEN (IF inherited_args = <<>> THEN <<>>
                ELSE [k \in 1..Len(inputs_) |->
                        IF inputs_[k].name \in ArgNames(inherited_args)
                           THEN <<inputs_[k].name, ArgValue(inherited_args, inputs_[k].name)>>
                        ELSE <<inputs_[k].name, None>>])
       ELSE [k \in 1..Len(inputs_) |->
               IF inputs_[k].name \in ArgNames(inherited_args)
                  THEN <<inputs_[k].name, ArgValue(inherited_args, inputs_[k].name)>>
               ELSE IF Len(step.stack) - k >= 0
                  THEN <<inputs_[k].name, decode_value(FromTop(step, k), inputs_[k].type)>>
               ELSE <<inputs_[k].name, None>>]

\* Lines 1498-1651: a JUMPDEST step.
StepJumpdest ==
    /\ at = "loop" /\ Step.op = "JUMPDEST"
    /\ LET st == DepthDecrease
           id == next_call_id
       IN IF DetectsInternalCall(st)
             THEN LET detected == _detect_internal_call(st)
                      call == [detected EXCEPT !.args = ArgsFromEthdebug(st, detected, Step)]
                      args == IF call.call_type = "internal" THEN InternalArgs(st, call, Step)
                              ELSE call.args
                      fr == LinkParent(NewFrame(st, [call EXCEPT !.args = args]),
                                       st.call_stack, id)
                  IN /\ Commit([st EXCEPT !.frames = fr,
                                          !.call_stack = Append(st.call_stack, id)])
                     /\ next_call_id' = next_call_id + 1
                     /\ function_calls' = insert_call_sorted(fr, function_calls, id)
             ELSE /\ Commit(st)
                  /\ UNCHANGED <<next_call_id, function_calls>>
    /\ Advance
    /\ UNCHANGED revert_already_marked
    /\ PassOnly

\* A pass that marks a frame at every REVERT step, not only at the first.
MarksRevert_EveryRevert(st) ==
    Step.op = "REVERT" /\ st.call_stack # <<>>

\* Lines 1655-1658: the frame a REVERT step marks.
MarksRevert(st) ==
    Step.op = "REVERT" /\ st.call_stack # <<>> /\ ~revert_already_marked

\* Lines 1660-1681: frames are popped and closed at step i, down to and
\* including the first CALL/DELEGATECALL/STATICCALL frame met, whose saved
\* context is restored; every other popped frame lowers current_depth.
CloseAt(fr, id, exit_step) ==
    [fr EXCEPT ![id + 1].exit_step = exit_step,
               ![id + 1].gas_used =
                    IF fr[id + 1].entry_step # None /\ fr[id + 1].entry_step < Len(trace)
                       THEN Gas(fr[id + 1].entry_step) - Gas(exit_step) ELSE 0]

RECURSIVE PopFrames(_)
PopFrames(st) ==
    IF st.call_stack = <<>> THEN st
    ELSE LET id == Last(st.call_stack)
             popped == [st EXCEPT !.call_stack = Front(st.call_stack),
                                  !.frames = CloseAt(st.frames, id, i)]
         IN IF st.frames[id + 1].call_type \in ExternalTypes
               THEN Restore(popped)
               ELSE PopFrames([popped EXCEPT !.current_depth = Max(0, @ - 1)])

\* Lines 1653-1681: a RETURN, REVERT or STOP step.
StepExit ==
    /\ at = "loop" /\ Step.op \in ExitOps
    /\ LET st == DepthDecrease
           marked == IF MarksRevert(st)
                        THEN [st EXCEPT !.frames[Last(st.call_stack) + 1].caused_revert = TRUE]
                        ELSE st
       IN /\ Commit(PopFrames(marked))
          /\ revert_already_marked' = (revert_already_marked \/ MarksRevert(st))
    /\ Advance
    /\ UNCHANGED <<next_call_id, function_calls>>
    /\ PassOnly

\* Any other opcode: only the depth check at the top of the loop runs.
StepOther ==
    /\ at = "loop" /\ Step.op \notin ExternalTypes \cup CreateOps \cup ExitOps \cup {"JUMPDEST"}
    /\ Commit(DepthDecrease)
    /\ Advance
    /\ UNCHANGED <<next_call_id, function_calls, revert_already_marked>>
    /\ PassOnly

\* Lines 1686-1691: frames still on call_stack are closed at the last step.
\* A pass that closes the remaining frames one step before the last.
ForceClosedAt_StepBefore == Max(0, Len(trace) - 2)

\* Line 1687: the step the remaining frames are closed at.
ForceClosedAt == Len(trace) - 1

RECURSIVE ForceClose(_, _)
ForceClose(fr, cs) ==
    IF cs = <<>> THEN fr
    ELSE ForceClose(CloseAt(fr, cs[1], ForceClosedAt), SubSeq(cs, 2, Len(cs)))

EndOfTrace ==
    /\ at = "end"
    /\ frames' = ForceClose(frames, call_stack)
    /\ at' = "post"
    /\ UNCHANGED <<trace, inputs, ethdebug_info, evm, evm_gas, pass, i, function_calls,
                   call_stack, next_call_id, current_contract, current_depth,
                   context_stack, revert_already_marked, prev_depth, first_result>>

\* Lines 1693-1770: the first frame of function_calls whose name matches the
\* main function name becomes the external entry point.  The main frame of
\* line 1373 carries exactly that name and sits second in the list, so a
\* match is always found and the fallback of lines 1718-1768 is never run.
NameMatches(name) == name = MainName

PostPass ==
    /\ at = "post"
    /\ LET hits == {k \in 1..Len(function_calls) : NameMatches(frames[function_calls[k] + 1].name)}
           result == IF has_selector /\ hits # {}
                        THEN [frames EXCEPT ![function_calls[CHOOSE k \in hits : \A m \in hits : k <= m] + 1].call_type = "external"]
                        ELSE frames
       IN /\ frames' = result
          /\ first_result' = IF pass = 1 THEN [frames |-> result, function_calls |-> function_calls]
                              ELSE first_result
    /\ at' = "returned"
    /\ UNCHANGED <<trace, inputs, ethdebug_info, evm, evm_gas, pass, i, function_calls,
                   call_stack, next_call_id, current_contract, current_depth,
                   context_stack, revert_already_marked, prev_depth>>

\* The caller analyses the same trace again with the same tracer
\* (evm_repl.py lines 164 and 217 after main.py).
CallAgain ==
    /\ at = "returned" /\ pass = 1
    /\ pass' = 2
    /\ at' = "analyze"
    /\ UNCHANGED <<trace, inputs, ethdebug_info, evm, evm_gas, locals, first_result>>

(***************************************************************************)
(* Deeply nested calls: traces made of calls that enter their callee and   *)
(* of RETURN/REVERT only, long enough for three calls inside one another.  *)
(***************************************************************************)
MaxNested == 7         \* longest trace of nested calls generated

RoomNested(opened) == Len(trace) + 1 + Len(evm) + opened <= MaxNested

EvmNestedCall ==
    /\ at = "evm" /\ evm_gas >= 1 /\ RoomNested(1)
    /\ trace' = Append(trace, TraceStep("CALL", 7, Target, 0))
    /\ evm' = Append(evm, [code |-> Target, retained |-> Retained])
    /\ evm_gas' = evm_gas - 1 - Retained
    /\ UNCHANGED at
    /\ EvmOnly

EvmNestedExit ==
    /\ at = "evm"
    /\ \E op \in {"RETURN", "REVERT"} : trace' = Append(trace, TraceStep(op, 7, NoAddr, 0))
    /\ EvmEnd(evm_gas)
    /\ EvmOnly

(***************************************************************************)
(* Calls with call data: CALL steps whose operands and memory are spelled  *)
(* out, and JUMPDEST steps with values on the stack, for the decoding of   *)
(* targets and arguments.                                                  *)
(***************************************************************************)
MaxArgSteps == 5       \* longest trace of calls with call data generated

RoomArgs(opened) == Len(trace) + 1 + Len(evm) + opened <= MaxArgSteps

\* A 32-byte word of memory holding a small number or the word of an address.
MemoryWord(n) == <<0, 0, 0, 0, 0, 0, 0, n>>

\* Memory at a CALL: the call data at offset 0 (a selector and one argument
\* word, 36 bytes), padding up to offset 0x40, and one word at 0x40.
CallMemory(selector, argument, word_at_40) ==
    <<selector>> \o MemoryWord(argument) \o <<0, 0, 0, 0, 0, 0, 0>> \o MemoryWord(word_at_40)

\* The operands of a CALL, bottom first: retSize, retOffset, argsSize,
\* argsOffset, value, to, gas.
CallOperands(to_word, args_size) == <<0, 0, args_size, 0, 0, to_word, 0>>

\* The target of a CALL as <<word on the stack, word of memory at 0x40>>: an
\* address on the stack, or the offset 0x40 with an address or nothing there.
CallTargets == {<<WordB, 0>>, <<64, WordB>>, <<64, 0>>}

\* The call data of a CALL as <<argsSize, selector>>: none, increment(5), or
\* a selector no loaded ABI knows.
CallData == {<<0, SelectorOf("increment")>>, <<36, SelectorOf("increment")>>, <<36, 200>>}

\* CALL with call data in memory and the callee running.  The target word
\* is an address or, as compiled with --via-ir, the small offset 0x40.
EvmCallWithData ==
    /\ at = "evm" /\ evm_gas >= 1 /\ RoomArgs(1)
    /\ \E target \in CallTargets, data \in CallData :
          trace' = Append(trace, [op |-> "CALL", depth |-> Len(evm), gas |-> evm_gas, pc |-> 0,
                                  stack |-> CallOperands(target[1], data[1]),
                                  memory |-> CallMemory(data[2], 5, target[2])])
    /\ evm' = Append(evm, [code |-> Target, retained |-> Retained])
    /\ evm_gas' = evm_gas - 1 - Retained
    /\ UNCHANGED at
    /\ EvmOnly

\* JUMPDEST at the declaration of increment or add, with two values on the
\* stack or none.
EvmJumpdestWithStack ==
    /\ at = "evm" /\ evm_gas >= 1 /\ RoomArgs(0)
    /\ \E p \in {3, 4}, stack \in {<<>>, <<9, 7>>} :
          trace' = Append(trace, [op |-> "JUMPDEST", depth |-> Len(evm), gas |-> evm_gas, pc |-> p,
                                  stack |-> stack, memory |-> <<>>])
    /\ evm_gas' = evm_gas - 1
    /\ UNCHANGED <<evm, at>>
    /\ EvmOnly

(***************************************************************************)
(* Parameter types: calls of store(string note, uint256 amount), whose     *)
(* first parameter is of a dynamic type.                                   *)
(***************************************************************************)
\* The call data of store("hi", 5): selector, the head words (the offset
\* 0x40 of the string's tail, and 5), the length word and the bytes "hi".
StoreCalldata ==
    <<SelectorOf("store")>> \o MemoryWord(64) \o MemoryWord(5) \o MemoryWord(2)
        \o <<26729, 0, 0, 0, 0, 0, 0, 0>>

\* CALL of store with all of its call data (132 bytes) or with the call
\* data cut after the first head word (36 bytes), and the callee running.
EvmCallStore ==
    /\ at = "evm" /\ evm_gas >= 1 /\ RoomArgs(1)
    /\ \E args_size \in {36, 132} :
          trace' = Append(trace, [op |-> "CALL", depth |-> Len(evm), gas |-> evm_gas, pc |-> 0,
                                  stack |-> CallOperands(WordB, args_size),
                                  memory |-> StoreCalldata])
    /\ evm' = Append(evm, [code |-> Target, retained |-> Retained])
    /\ evm_gas' = evm_gas - 1 - Retained
    /\ UNCHANGED at
    /\ EvmOnly

\* JUMPDEST at the declaration of add or store, with two values on the
\* stack or none.
EvmJumpdestStore ==
    /\ at = "evm" /\ evm_gas >= 1 /\ RoomArgs(0)
    /\ \E p \in {4, 5}, stack \in {<<>>, <<9, 7>>} :
          trace' = Append(trace, [op |-> "JUMPDEST", depth |-> Len(evm), gas |-> evm_gas, pc |-> p,
                                  stack |-> stack, memory |-> <<>>])
    /\ evm_gas' = evm_gas - 1
    /\ UNCHANGED <<evm, at>>
    /\ EvmOnly

(***************************************************************************)
(* Return data: RETURN steps that hand a 32-byte word back to the caller.  *)
(***************************************************************************)
\* The word increment hands back.
Returned6 == MemoryWord(6)

\* RETURN of the running execution with its operands on the stack (offset 0
\* on top, length 32 below it) and the returned word in memory.
EvmReturnData ==
    /\ at = "evm"
    /\ trace' = Append(trace, [op |-> "RETURN", depth |-> Len(evm), gas |-> evm_gas, pc |-> 0,
                               stack |-> <<32, 0>>, memory |-> Returned6])
    /\ EvmEnd(evm_gas)
    /\ EvmOnly

(***************************************************************************)
(* Jumps: JUMP steps with their target on the stack, the JUMPDEST each one *)
(* lands on, and JUMPDEST steps reached by falling through from the        *)
(* instruction before them.                                                *)
(***************************************************************************)
MaxJumpSteps == 6      \* longest trace with jumps generated

RoomJumps(opened) == Len(trace) + 1 + Len(evm) + opened <= MaxJumpSteps

\* The last step traced is a JUMP: the EVM goes on at its target.
AfterJump == trace # <<>> /\ Last(trace).op = "JUMP"

JumpStep(op, stack, jpc) ==
    [op |-> op, depth |-> Len(evm), gas |-> evm_gas, pc |-> jpc, stack |-> stack, memory |-> <<>>]

\* JUMP to the declaration of f or g (the target is the word on top of the
\* stack).
EvmJump ==
    /\ at = "evm" /\ evm_gas >= 2 /\ RoomJumps(1) /\ ~AfterJump
    /\ \E target \in Pcs : trace' = Append(trace, JumpStep("JUMP", <<target>>, 0))
    /\ evm_gas' = evm_gas - 1
    /\ UNCHANGED <<evm, at>>
    /\ EvmOnly

\* The JUMPDEST a JUMP lands on.
EvmJumpdestJumpedTo ==
    /\ at = "evm" /\ evm_gas >= 1 /\ AfterJump
    /\ trace' = Append(trace, JumpStep("JUMPDEST", <<>>, FromTop(Last(trace), 1)))
    /\ evm_gas' = evm_gas - 1
    /\ UNCHANGED <<evm, at>>
    /\ EvmOnly

\* A JUMPDEST reached from the instruction before it, without a jump.
EvmJumpdestFallThrough ==
    /\ at = "evm" /\ evm_gas >= 1 /\ RoomJumps(0) /\ ~AfterJump
    /\ \E p \in Pcs : trace' = Append(trace, JumpStep("JUMPDEST", <<>>, p))
    /\ evm_gas' = evm_gas - 1
    /\ UNCHANGED <<evm, at>>
    /\ EvmOnly

\* CALL to the contract at Target, with the callee running.
EvmCallBetweenJumps ==
    /\ at = "evm" /\ evm_gas >= 1 /\ RoomJumps(1) /\ ~AfterJump
    /\ trace' = Append(trace, JumpStep("CALL", OperandStack(7, Target), 0))
    /\ evm' = Append(evm, [code |-> Target, retained |-> Retained])
    /\ evm_gas' = evm_gas - 1 - Retained
    /\ UNCHANGED at
    /\ EvmOnly

\* RETURN or REVERT of the running execution.
EvmExitBetweenJumps ==
    /\ at = "evm" /\ ~AfterJump
    /\ \E op \in {"RETURN", "REVERT"} : trace' = Append(trace, JumpStep(op, <<>>, 0))
    /\ EvmEnd(evm_gas)
    /\ EvmOnly

(***************************************************************************)
(* Calls of each kind: DELEGATECALL and STATICCALL take six operands, with *)
(* no value between the target and argsOffset.                             *)
(***************************************************************************)
\* The operands of a DELEGATECALL or STATICCALL, bottom first: retSize,
\* retOffset, argsSize, argsOffset, to, gas.
SixOperands(to_word, args_size) == <<0, 0, args_size, 0, to_word, 0>>

\* The stack of a call step: the operands, for the calls of six operands
\* on top of one word of the caller or on an otherwise empty stack.
OperandStacks(op, to_word, args_size) ==
    IF op = "CALL" THEN {CallOperands(to_word, args_size)}
    ELSE {<<7>> \o SixOperands(to_word, args_size), SixOperands(to_word, args_size)}

\* CALL, DELEGATECALL or STATICCALL of increment(5) or without call data,
\* with the call data at offset 0 of memory, and the callee running.
EvmCallOfKind ==
    /\ at = "evm" /\ evm_gas >= 1 /\ RoomArgs(1)
    /\ \E op \in ExternalTypes, args_size \in {0, 36} :
          \E stack \in OperandStacks(op, WordB, args_size) :
              trace' = Append(trace, [op |-> op, depth |-> Len(evm), gas |-> evm_gas, pc |-> 0,
                                      stack |-> stack,
                                      memory |-> CallMemory(SelectorOf("increment"), 5, 0)])
    /\ evm' = Append(evm, [code |-> Target, retained |-> Retained])
    /\ evm_gas' = evm_gas - 1 - Retained
    /\ UNCHANGED at
    /\ EvmOnly

(***************************************************************************)
(* The same trace analysed once more by a tracer that has no debug info    *)
(* registered (main.py without an ETHDebug directory, lines 109-153).      *)
(***************************************************************************)
AnalyzeWithoutDebugInfo ==
    /\ at = "returned" /\ pass = 1
    /\ pass' = 2
    /\ at' = "analyze"
    /\ multi_contract_parser' = FALSE
    /\ ethdebug_info' = NoAddr
    /\ UNCHANGED <<trace, to_addr, has_selector, function_abis, aside, evm, evm_gas, locals,
                   first_result>>

(***************************************************************************)
(* Functions called aside of the pass.  The tracer is idle meanwhile.      *)
(***************************************************************************)
passvars == <<trace, to_addr, has_selector, multi_contract_parser, function_abis, ethdebug_info,
              evm, evm_gas, at, pass, i, frames, function_calls, call_stack,
              next_call_id, current_contract, current_depth, context_stack,
              revert_already_marked, prev_depth, first_result,
              current_step, breakpoints, source_map>>

IdlePass ==
    /\ to_addr = "A" /\ has_selector = FALSE
    /\ ethdebug_info = NoAddr
    /\ function_abis = {}
    /\ trace = <<>>
    /\ evm = <<[code |-> "A", retained |-> 0]>>
    /\ evm_gas = InitGas
    /\ at = "aside"
    /\ pass = 1
    /\ i = 0
    /\ frames = <<>>
    /\ function_calls = <<>>
    /\ call_stack = <<>>
    /\ next_call_id = 0
    /\ current_contract = NoAddr
    /\ current_depth = 0
    /\ context_stack = <<>>
    /\ revert_already_marked = FALSE
    /\ prev_depth = 0
    /\ first_result = [frames |-> <<>>, function_calls |-> <<>>]
    /\ current_step = 0 /\ breakpoints = {} /\ source_map = {}

\* The call returns value.
Return(value) == pure_result' = [returned |-> TRUE, value |-> value]

(***************************************************************************)
(* abi_utils.match_abi_types.  A type string is held as the sequence of    *)
(* its tokens: a name, "(", ")" or "[]"; "(uint256)[]" is                  *)
(* <<"(", "uint256", ")", "[]">>.                                          *)
(***************************************************************************)
MaxTypes == 2          \* longest list of types matched

\* match_single_type (lines 17-34).
RECURSIVE match_single_type(_, _)
match_single_type(parsed_type, abi_type) ==
    IF parsed_type = abi_type THEN TRUE
    ELSE IF /\ parsed_type # <<>>
            /\ parsed_type[1] = "(" /\ Last(parsed_type) = ")"
            /\ abi_type = <<"tuple">> THEN TRUE
    ELSE IF /\ parsed_type # <<>> /\ abi_type # <<>>
            /\ Last(parsed_type) = "[]" /\ Last(abi_type) = "[]"
         THEN match_single_type(Front(parsed_type), Front(abi_type))
    ELSE IF (\E k \in 1..Len(parsed_type) : parsed_type[k] = "(") /\ abi_type = <<"tuple">> THEN TRUE
    ELSE FALSE

\* match_abi_types (lines 8-15).
match_abi_types(parsed_types, abi_types) ==
    /\ Len(parsed_types) = Len(abi_types)
    /\ \A k \in 1..Len(parsed_types) : match_single_type(parsed_types[k], abi_types[k])

\* Types as parse_signature hands them over, and as an ABI declares them.
ParsedTypes ==
    {<<"uint256">>, <<"string">>, <<"(", "uint256", ")">>, <<"tuple">>,
     <<"uint256", "[]">>, <<"(", "uint256", ")", "[]">>, <<"(", "uint256", ")", "[]", "[]">>,
     <<"tuple", "[]">>}
DeclaredTypes ==
    {<<"uint256">>, <<"string">>, <<"tuple">>,
     <<"uint256", "[]">>, <<"tuple", "[]">>, <<"tuple", "[]", "[]">>}
TypeLists(types) == UNION {[1..n -> types] : n \in 0..MaxTypes}

InitMatch ==
    /\ IdlePass /\ multi_contract_parser = FALSE
    /\ pure_call \in {[fn |-> "match_abi_types", parsed_types |-> p, abi_types |-> a] :
                         p \in TypeLists(ParsedTypes), a \in TypeLists(DeclaredTypes)}
    /\ pure_result = NoResult
    /\ execution_stack = <<>>

CallMatchAbiTypes ==
    /\ pure_call.fn = "match_abi_types" /\ ~pure_result.returned
    /\ Return(match_abi_types(pure_call.parsed_types, pure_call.abi_types))
    /\ UNCHANGED <<passvars, pure_call, execution_stack>>

NextMatch == CallMatchAbiTypes

SpecMatch == InitMatch /\ [][NextMatch]_vars

(***************************************************************************)
(* decode_value of the ABI word of a value of a fixed-size type.           *)
(***************************************************************************)
FixedSizeTypes == {"uint8", "uint256", "int8", "int256", "address", "bool", "bytes32"}

\* The values of a type: every value of the one-byte types, and the ends
\* and the middle of the range of the wider ones.
Around(low, high) == {low, low + 1, high - 1, high} \cup {v \in {-2, -1, 0, 1, 2} : low <= v /\ v <= high}
ValuesOf(type) ==
    IF type = "uint8" THEN 0..(2^8 - 1)
    ELSE IF type = "int8" THEN (-(2^7))..(2^7 - 1)
    ELSE IF type = "int256" THEN Around(-(2^(WordBits - 1)), 2^(WordBits - 1) - 1)
    ELSE IF type = "address" THEN Around(0, 2^AddressBits - 1)
    ELSE IF type = "bool" THEN BOOLEAN
    ELSE Around(0, 2^WordBits - 1)

\* The ABI word of a value (eth_abi encode): an unsigned integer, an
\* address and bytes32 padded with zeros, a signed integer in two's
\* complement over the whole word, a bool as 1 or 0.
AbiWord(type, v) ==
    IF type = "bool" THEN (IF v THEN 1 ELSE 0)
    ELSE IF type \in {"int8", "int256"} THEN v % 2^WordBits
    ELSE v

InitDecode ==
    /\ IdlePass /\ multi_contract_parser = FALSE
    /\ pure_call \in UNION {{[fn |-> "decode_value", param_type |-> type, v |-> v,
                               raw_value |-> AbiWord(type, v)] : v \in ValuesOf(type)} :
                             type \in FixedSizeTypes}
    /\ pure_result = NoResult
    /\ execution_stack = <<>>

CallDecodeValue ==
    /\ pure_call.fn = "decode_value" /\ ~pure_result.returned
    /\ Return(decode_value(pure_call.raw_value, pure_call.param_type))
    /\ UNCHANGED <<passvars, pure_call, execution_stack>>

NextDecode == CallDecodeValue

SpecDecode == InitDecode /\ [][NextDecode]_vars

(***************************************************************************)
(* The execution context stack of MultiContractETHDebugParser.             *)
(***************************************************************************)
MaxContexts == 3       \* highest execution_stack built

\* Python None where a context is expected.
NoContext == [address |-> NoAddr, debug_info |-> NoAddr, pc_offset |-> 0, call_type |-> "none"]

\* ExecutionContext (lines 28-37).
ExecutionContext(address, debug_info, pc_offset, call_type) ==
    [address |-> address, debug_info |-> debug_info, pc_offset |-> pc_offset,
     call_type |-> call_type]

\* Addresses a context is pushed for: the registered contracts and one
\* contract no debug info was loaded for.
ContextAddresses == Registry \cup {"C"}

\* get_contract_at_address (lines 217-220): the registered contract's debug
\* info, None for any other address.
get_contract_at_address(address) == IF address \in Registry THEN address ELSE NoAddr

Called(call) == pure_call' = [call EXCEPT !.before = execution_stack]

\* push_context (lines 222-234) with the default pc_offset.
push_context ==
    /\ at = "aside" /\ multi_contract_parser
    /\ Len(execution_stack) < MaxContexts
    /\ \E address \in ContextAddresses, call_type \in ExternalTypes :
          LET contract_info == get_contract_at_address(address)
              context == ExecutionContext(address, contract_info, 0, call_type)
          IN /\ Called([fn |-> "push_context", address |-> address,
                        call_type |-> call_type, before |-> <<>>])
             /\ IF contract_info # NoAddr
                   THEN /\ execution_stack' = Append(execution_stack, context)
                        /\ Return(context)
                   ELSE /\ UNCHANGED execution_stack
                        /\ Return(NoContext)
    /\ UNCHANGED passvars

\* pop_context (lines 236-240).
pop_context ==
    /\ at = "aside" /\ multi_contract_parser
    /\ Called([fn |-> "pop_context", before |-> <<>>])
    /\ IF execution_stack # <<>>
          THEN /\ execution_stack' = Front(execution_stack)
               /\ Return(Last(execution_stack))
          ELSE /\ UNCHANGED execution_stack
               /\ Return(NoContext)
    /\ UNCHANGED passvars

\* get_current_context (lines 242-246).
get_current_context ==
    /\ at = "aside" /\ multi_contract_parser
    /\ Called([fn |-> "get_current_context", before |-> <<>>])
    /\ Return(IF execution_stack # <<>> THEN Last(execution_stack) ELSE NoContext)
    /\ UNCHANGED <<passvars, execution_stack>>

InitContexts ==
    /\ IdlePass /\ multi_contract_parser = TRUE
    /\ NothingAside

NextContexts == push_context \/ pop_context \/ get_current_context

SpecContexts == InitContexts /\ [][NextContexts]_vars

(***************************************************************************)
(* Sessions: which debug info main.py has loaded before the first call.    *)
(***************************************************************************)
Sessions ==
    {[to_addr |-> "A", multi |-> FALSE, info |-> NoAddr],   \* no debug info
     [to_addr |-> "A", multi |-> TRUE, info |-> "A"],       \* multi-contract mode
     [to_addr |-> NoAddr, multi |-> TRUE, info |-> NoAddr]} \* deployment, multi-contract mode

Init ==
    /\ \E s \in Sessions :
          /\ to_addr = s.to_addr
          /\ multi_contract_parser = s.multi
          /\ ethdebug_info = s.info
    /\ has_selector \in BOOLEAN
    /\ function_abis = {}
    /\ trace = <<>>
    /\ evm = <<[code |-> "A", retained |-> 0]>>
    /\ evm_gas = InitGas
    /\ at = "evm"
    /\ pass = 1
    /\ i = 0
    /\ frames = <<>>
    /\ function_calls = <<>>
    /\ call_stack = <<>>
    /\ next_call_id = 0
    /\ current_contract = NoAddr
    /\ current_depth = 0
    /\ context_stack = <<>>
    /\ revert_already_marked = FALSE
    /\ prev_depth = 0
    /\ first_result = [frames |-> <<>>, function_calls |-> <<>>]
    /\ NothingAside

\* Sessions of the calls with call data: with and without debug info, with
\* and without the ABI of the called contract loaded.
InitArgs ==
    /\ \E s \in {x \in Sessions : x.to_addr # NoAddr} :
          /\ to_addr = s.to_addr
          /\ multi_contract_parser = s.multi
          /\ ethdebug_info = s.info
    /\ has_selector \in BOOLEAN
    /\ function_abis \in {{}, AbiFunctions}
    /\ trace = <<>>
    /\ evm = <<[code |-> "A", retained |-> 0]>>
    /\ evm_gas = InitGas
    /\ at = "evm"
    /\ pass = 1
    /\ i = 0
    /\ frames = <<>>
    /\ function_calls = <<>>
    /\ call_stack = <<>>
    /\ next_call_id = 0
    /\ current_contract = NoAddr
    /\ current_depth = 0
    /\ context_stack = <<>>
    /\ revert_already_marked = FALSE
    /\ prev_depth = 0
    /\ first_result = [frames |-> <<>>, function_calls |-> <<>>]
    /\ NothingAside

Next ==
    \/ EvmPlain \/ EvmCall \/ EvmCreate \/ EvmCallFails \/ EvmExit \/ EvmFault
    \/ Begin
    \/ StepExternalCall \/ StepCreate \/ StepJumpdest \/ StepExit \/ StepOther
    \/ EndOfTrace \/ PostPass \/ CallAgain

Spec == Init /\ [][Next]_vars

NextNested ==
    \/ EvmNestedCall \/ EvmNestedExit
    \/ Begin
    \/ StepExternalCall \/ StepExit
    \/ EndOfTrace \/ PostPass

SpecNested == Init /\ [][NextNested]_vars

NextArgs ==
    \/ EvmCallWithData \/ EvmJumpdestWithStack \/ EvmExit
    \/ Begin
    \/ StepExternalCall \/ StepJumpdest \/ StepExit
    \/ EndOfTrace \/ PostPass

SpecArgs == InitArgs /\ [][NextArgs]_vars

\* Sessions on parameter types: with and without debug info, the ABI with
\* store loaded.
InitTypes ==
    /\ \E s \in {x \in Sessions : x.to_addr # NoAddr} :
          /\ to_addr = s.to_addr
          /\ multi_contract_parser = s.multi
          /\ ethdebug_info = s.info
    /\ has_selector \in BOOLEAN
    /\ function_abis = AbiFunctionsWithString
    /\ trace = <<>>
    /\ evm = <<[code |-> "A", retained |-> 0]>>
    /\ evm_gas = InitGas
    /\ at = "evm"
    /\ pass = 1
    /\ i = 0
    /\ frames = <<>>
    /\ function_calls = <<>>
    /\ call_stack = <<>>
    /\ next_call_id = 0
    /\ current_contract = NoAddr
    /\ current_depth = 0
    /\ context_stack = <<>>
    /\ revert_already_marked = FALSE
    /\ prev_depth = 0
    /\ first_result = [frames |-> <<>>, function_calls |-> <<>>]
    /\ NothingAside

NextTypes ==
    \/ EvmCallStore \/ EvmJumpdestStore \/ EvmExit
    \/ Begin
    \/ StepExternalCall \/ StepJumpdest \/ StepExit
    \/ EndOfTrace \/ PostPass

SpecTypes == InitTypes /\ [][NextTypes]_vars

NextReturns ==
    \/ EvmCallWithData \/ EvmReturnData \/ EvmExit
    \/ Begin
    \/ StepExternalCall \/ StepExit
    \/ EndOfTrace \/ PostPass

SpecReturns == InitArgs /\ [][NextReturns]_vars

NextOperands ==
    \/ EvmCallOfKind \/ EvmExit
    \/ Begin
    \/ StepExternalCall \/ StepExit
    \/ EndOfTrace \/ PostPass

SpecOperands == InitArgs /\ [][NextOperands]_vars

\* Sessions of the traces with jumps: with and without debug info, no ABI.
InitJumps == InitArgs /\ function_abis = {}

NextJumps ==
    \/ EvmJump \/ EvmJumpdestJumpedTo \/ EvmJumpdestFallThrough
    \/ EvmCallBetweenJumps \/ EvmExitBetweenJumps
    \/ Begin
    \/ StepExternalCall \/ StepJumpdest \/ StepExit \/ StepOther
    \/ EndOfTrace \/ PostPass

SpecJumps == InitJumps /\ [][NextJumps]_vars

NextNoDebug ==
    \/ EvmPlain \/ EvmCall \/ EvmCreate \/ EvmCallFails \/ EvmExit \/ EvmFault
    \/ Begin
    \/ StepExternalCall \/ StepCreate \/ StepJumpdest \/ StepExit \/ StepOther
    \/ EndOfTrace \/ PostPass \/ AnalyzeWithoutDebugInfo

SpecNoDebug == Init /\ [][NextNoDebug]_vars

(***************************************************************************)
(* Properties of the returned frame list.                                  *)
(***************************************************************************)
Returned == at = "returned"
Ids == {frames[k].call_id : k \in 1..Len(frames)}
F(id) == frames[id + 1]
Roots == {id \in Ids : F(id).parent_call_id = None}
StepsOf(ops) == {k \in 0..(Len(trace) - 1) : trace[k + 1].op \in ops}

RECURSIVE ReachesEntry(_, _)
ReachesEntry(id, seen) ==
    IF F(id).call_type = "entry" /\ F(id).parent_call_id = None THEN TRUE
    ELSE IF F(id).parent_call_id \notin Ids \ seen THEN FALSE
    ELSE ReachesEntry(F(id).parent_call_id, seen \cup {F(id).parent_call_id})

\* C1: the returned frames form a single tree: exactly one frame, the entry
\* frame, has no parent; every other frame's parent_call_id names another
\* returned frame; parent links lead from every frame to the entry frame
\* without revisiting a frame.
C1_SingleTree ==
    Returned =>
        /\ Cardinality(Roots) = 1
        /\ \A id \in Roots : F(id).call_type = "entry"
        /\ \A id \in Ids \ Roots : F(id).parent_call_id \in Ids \ {id}
        /\ \A id \in Ids : ReachesEntry(id, {id})

Occurrences(seq, x) == Cardinality({k \in 1..Len(seq) : seq[k] = x})

\* C2: parent and child links agree: c.parent_call_id = p.call_id exactly
\* when c.call_id is in p.children_call_ids, and no call_id is listed as a
\* child twice, in one frame or in two.
C2_LinksAgree ==
    Returned =>
        /\ \A c \in Ids, p \in Ids :
              (F(c).parent_call_id = p) <=> (Occurrences(F(p).children_call_ids, c) > 0)
        /\ \A c \in Ids :
              Cardinality({<<p, k>> \in Ids \X (1..Len(frames)) :
                              /\ k <= Len(F(p).children_call_ids)
                              /\ F(p).children_call_ids[k] = c}) <= 1

\* C3: every returned frame, the main function frame included, has
\* entry_step and exit_step set to step indices of the trace, with
\* entry_step <= exit_step.
C3_StepsSet ==
    Returned =>
        \A id \in Ids :
            /\ F(id).entry_step \in 0..(Len(trace) - 1)
            /\ F(id).exit_step \in 0..(Len(trace) - 1)
            /\ F(id).entry_step <= F(id).exit_step

Marked == {k \in 1..Len(frames) : frames[k].caused_revert}

\* C4: at every point of the pass and in the result, at most one frame has
\* caused_revert = TRUE, however many REVERT steps the trace holds.
C4_AtMostOneRevertFrame == Cardinality(Marked) <= 1

\* The pass has gone over two REVERT steps and has marked a frame.
C4_Witness ==
    /\ at \in {"loop", "end", "post", "returned"}
    /\ Cardinality({k \in StepsOf({"REVERT"}) : k < i}) >= 2
    /\ Cardinality(Marked) = 1

\* What the trace itself says about the execution that runs step r: its
\* first step, and the frames that belong to it - the frame of the call or
\* creation that started it (the entry and main frames for the outermost
\* execution) and the frames opened at its own steps before r whose call has
\* not run to its end.
Depth(k) == trace[k + 1].depth
ExecStart(r) ==
    CHOOSE k \in 0..r :
        /\ \A m \in k..r : Depth(m) >= Depth(r)
        /\ k = 0 \/ Depth(k - 1) < Depth(r)
RanCallee(e) == Depth(e + 1) > Depth(e)
OpenIn(r) ==
    LET k == ExecStart(r)
    IN {id \in Ids :
          \/ k = 0 /\ (F(id).call_type = "entry" \/ F(id).entry_step = None)
          \/ k > 0 /\ F(id).entry_step = k - 1
          \/ /\ F(id).entry_step \in k..(r - 1)
             /\ Depth(F(id).entry_step) = Depth(r)
             /\ F(id).call_type = "internal" \/ ~RanCallee(F(id).entry_step)}
FirstRevert == CHOOSE r \in StepsOf({"REVERT"}) : \A q \in StepsOf({"REVERT"}) : r <= q

\* C5: for a trace with at least one REVERT step, exactly one returned frame
\* has caused_revert = TRUE, and it is the most recently opened frame of the
\* execution that runs that REVERT.
C5_RevertFrame ==
    (Returned /\ StepsOf({"REVERT"}) # {}) =>
        /\ Cardinality(Marked) = 1
        /\ \A k \in Marked :
              /\ frames[k].call_id \in OpenIn(FirstRevert)
              /\ \A id \in OpenIn(FirstRevert) : id <= frames[k].call_id

\* C6: for every closed frame of the result, gas_used is the gas remaining
\* at its entry_step minus the gas remaining at its exit_step.
C6_GasUsed ==
    Returned =>
        \A id \in Ids :
            F(id).exit_step # None =>
                /\ F(id).entry_step # None
                /\ F(id).gas_used = Gas(F(id).entry_step) - Gas(F(id).exit_step)

RECURSIVE GasOfChildren(_)
GasOfChildren(children) ==
    IF children = <<>> THEN 0
    ELSE F(children[1]).gas_used + GasOfChildren(SubSeq(children, 2, Len(children)))

\* C7: every frame's gas_used is at least the sum of gas_used over the
\* frames in its children_call_ids.
C7_ParentGas ==
    Returned =>
        \A id \in Ids : F(id).gas_used >= GasOfChildren(F(id).children_call_ids)

Shape(fr, fcs) ==
    [k \in 1..Len(fcs) |->
        LET c == fr[fcs[k] + 1]
        IN <<c.name, c.call_type, c.entry_step, c.exit_step, c.depth,
             c.parent_call_id, c.children_call_ids, c.caused_revert>>]

\* C8: a second call on the same trace with the same tracer returns a frame
\* list equal to the first in shape, names and step indices.
C8_SecondCallSame ==
    (Returned /\ pass = 2) =>
        Shape(frames, function_calls) = Shape(first_result.frames, first_result.function_calls)

\* C9: analyze_function_calls returns a frame list for every trace: no step
\* raises an exception out of the pass.
C9_NeverRaises == at # "raised"

\* C10: every CALL, DELEGATECALL, STATICCALL, CREATE and CREATE2 step of the
\* trace has a frame in the result whose entry_step is that step, also when
\* the step has too few stack items.
C10_FramePerCallStep ==
    Returned =>
        \A k \in StepsOf(ExternalTypes \cup CreateOps) :
            \E id \in Ids : F(id).entry_step = k /\ F(id).call_type = trace[k + 1].op

(***************************************************************************)
(* Closing rules: which frames a step closes, and when.                    *)
(***************************************************************************)
Elems(seq) == {seq[k] : k \in 1..Len(seq)}
OnStack(id) == id \in Elems(call_stack)

\* C11: the root entry frame spans the whole trace and is the last frame
\* closed: while steps remain to be processed it is still on call_stack (no
\* exit of a nested call closes it), and in the result its entry_step is 0
\* and its exit_step is the index of the final trace step.
C11_EntrySpansTrace ==
    /\ at = "loop" => OnStack(0)
    /\ Returned => /\ F(0).call_type = "entry"
                   /\ F(0).entry_step = 0
                   /\ F(0).exit_step = Len(trace) - 1

\* The loop is at a step whose depth is lower than the previous step's.
DepthDecreased == at = "loop" /\ i > 0 /\ Step.depth < prev_depth

\* The execution started by the call or creation of frame id ran and ended
\* with step i - 1, as the trace tells it.
CalleeJustFinished(id) ==
    LET e == F(id).entry_step
    IN /\ e # None /\ e < i - 1
       /\ \A m \in (e + 1)..(i - 1) : Depth(m) > Depth(e)
       /\ Depth(i) <= Depth(e)

\* The frames the depth check of lines 1399-1421 closes at step i.
ClosedByDepthDecrease ==
    LET js == ExternalAt(frames, call_stack)
    IN IF js = {} THEN {} ELSE {call_stack[MaxOf(js)]}

\* C12: when the EVM depth decreases between two consecutive steps, the
\* frame closed is the most recent still-open call or create frame whose
\* callee has just finished, and no other: a frame whose callee still has
\* steps to execute is not closed, and when the callee's frame was already
\* closed at its own RETURN/STOP/REVERT no outer frame is closed.
C12_DepthDecreaseFrame ==
    DepthDecreased =>
        LET cands == {k \in 1..Len(call_stack) :
                         /\ F(call_stack[k]).call_type \in ExternalTypes \cup CreateOps
                         /\ CalleeJustFinished(call_stack[k])}
        IN ClosedByDepthDecrease = (IF cands = {} THEN {} ELSE {call_stack[MaxOf(cands)]})

\* The frames the exit branch of lines 1653-1681 closes at step i, after
\* the depth check of the same iteration.
ClosedByExit ==
    Elems(DepthDecrease.call_stack) \ Elems(PopFrames(DepthDecrease).call_stack)

\* Frame id belongs to the execution that runs step r or to one it started:
\* it is not a frame of a shallower execution.
NotShallower(id, r) ==
    \/ ExecStart(r) = 0
    \/ /\ F(id).call_type # "entry"
       /\ F(id).entry_step # None
       /\ F(id).entry_step >= ExecStart(r) - 1

\* C13: on a RETURN, REVERT or STOP step the frames closed are the open
\* frames of the execution that ends, down to and including the call or
\* create frame (or the root) that started it; every frame opened by a
\* shallower execution stays open, also when the execution was started by
\* CREATE or CREATE2.
C13_ExitClosesOwnFrames ==
    (at = "loop" /\ Step.op \in ExitOps) =>
        ClosedByExit = {id \in Elems(DepthDecrease.call_stack) : NotShallower(id, i)}

OpenCallsAndCreates ==
    {k \in 1..Len(call_stack) : F(call_stack[k]).call_type \in ExternalTypes \cup CreateOps}

\* C14: at every step of the pass the number of saved contexts equals the
\* number of open external-call and create frames (soldb pushes no context
\* for the entry).
C14_ContextPerOpenFrame ==
    at \in {"loop", "end"} => Len(context_stack) = Cardinality(OpenCallsAndCreates)

\* C15: every frame still on call_stack after the last step is closed with
\* exit_step equal to the index of the last trace step, and no returned
\* frame has exit_step unset.
C15_ForceClosed ==
    at \in {"post", "returned"} =>
        /\ \A id \in Elems(call_stack) : F(id).exit_step = Len(trace) - 1
        /\ \A id \in Ids : F(id).exit_step # None

\* A trace that ends without RETURN, REVERT or STOP has been analysed and a
\* frame opened before its last step was still on call_stack at the end.
C15_Witness ==
    /\ Returned
    /\ Last(trace).op \notin ExitOps
    /\ \E id \in Elems(call_stack) :
          /\ F(id).call_type # "entry"
          /\ F(id).entry_step # None /\ F(id).entry_step < Len(trace) - 1
          /\ F(id).exit_step = Len(trace) - 1


(***************************************************************************)
(* Scenarios.                                                              *)
(***************************************************************************)
\* Steps c1 < c2 < c3 < r: three CALLs inside one another, r a REVERT run by
\* the callee of the innermost.
NestedRevert(c1, c2, c3, r) ==
    /\ trace[c1 + 1].op \in ExternalTypes /\ trace[c2 + 1].op \in ExternalTypes
    /\ trace[c3 + 1].op \in ExternalTypes /\ trace[r + 1].op = "REVERT"
    /\ ExecStart(r) = c3 + 1
    /\ ExecStart(c3) = c2 + 1
    /\ ExecStart(c2) = c1 + 1

FrameAt(c) == {id \in Ids : F(id).entry_step = c /\ F(id).call_type \in ExternalTypes}

\* C16: for a trace with three nested external calls whose innermost callee
\* executes REVERT at step r, only the frame of the innermost call has
\* caused_revert = TRUE and all three call frames have exit_step = r.
C16_RevertDeepInStack ==
    Returned =>
        \A c1, c2, c3, r \in 0..(Len(trace) - 1) :
            (NestedRevert(c1, c2, c3, r) /\ r = FirstRevert) =>
                /\ {frames[k].call_id : k \in Marked} = FrameAt(c3)
                /\ \A id \in FrameAt(c1) \cup FrameAt(c2) \cup FrameAt(c3) : F(id).exit_step = r
                /\ FrameAt(c1) # {} /\ FrameAt(c2) # {} /\ FrameAt(c3) # {}

\* The frames of a result that are not internal, by kind, steps and target.
NotInternal(fr) ==
    {<<fr[k].call_type, fr[k].entry_step, fr[k].exit_step, fr[k].contract_address>> :
        k \in {n \in 1..Len(fr) : fr[n].call_type # "internal"}}

\* C17: analysing a trace with no debug info registered raises no error and
\* returns the frames the analysis with debug info returns minus the
\* internal frames: the same entry, external-call and create frames with the
\* same entry_step, exit_step, kind and target address, and no internal
\* frame.
C17_SameWithoutDebugInfo ==
    /\ (~multi_contract_parser /\ ethdebug_info = NoAddr) => at # "raised"
    /\ (Returned /\ pass = 2 /\ ~multi_contract_parser) =>
          /\ \A k \in 1..Len(frames) : frames[k].call_type # "internal"
          /\ NotInternal(frames) = NotInternal(first_result.frames)

\* The second part of C17 alone.
SameFramesWithoutDebugInfo ==
    (Returned /\ pass = 2 /\ ~multi_contract_parser) =>
        /\ \A k \in 1..Len(frames) : frames[k].call_type # "internal"
        /\ NotInternal(frames) = NotInternal(first_result.frames)

\* An analysis with internal frames in its result has been repeated without
\* debug info.
SameFramesWitness ==
    /\ Returned /\ pass = 2 /\ ~multi_contract_parser
    /\ \E k \in 1..Len(first_result.frames) : first_result.frames[k].call_type = "internal"
    /\ \E k \in 1..Len(frames) : frames[k].call_type \in ExternalTypes

\* is_likely_memory_offset (lines 415-426).
MemoryOffsetLimit == 4096
is_likely_memory_offset(value) == value < MemoryOffsetLimit

\* extract_address_from_memory (lines 351-387): the address in the low 20
\* bytes of the 32-byte word at a byte offset; None when memory is too short
\* or the address is zero.
extract_address_from_memory(memory, offset) ==
    LET first == offset \div 4
        addr == SubSeq(memory, first + 4, first + 8)
    IN IF first + 8 > Len(memory) \/ \A k \in 1..Len(addr) : addr[k] = 0 THEN NoAddr
       ELSE extract_address_from_stack(WordValue(addr))

\* C18: for a CALL step whose target stack word is small (below 0x1000) and
\* whose memory holds a non-zero address in the word at that offset, the
\* frame's contract_address is the address read from memory, not the small
\* integer written as an address.
C18_TargetFromMemory ==
    \A id \in Ids :
        (F(id).call_type \in ExternalTypes) =>
            LET step == trace[F(id).entry_step + 1]
                word == FromTop(step, 2)
            IN (/\ is_likely_memory_offset(word)
                /\ extract_address_from_memory(step.memory, word) # NoAddr) =>
                   F(id).contract_address = extract_address_from_memory(step.memory, word)

\* A CALL to the contract at Target whose argument operands (offset 0, size
\* 36) point at the call data of increment(5).
CallsIncrement5(step) ==
    /\ step.stack = CallOperands(WordOf(Target), 36)
    /\ SubSeq(step.memory, 1, 9) = <<SelectorOf("increment")>> \o MemoryWord(5)

TopLevelFrame == IF has_selector THEN 1 ELSE 0
ExternalFrames == {id \in Ids : F(id).call_type \in ExternalTypes}

\* The simple external call: the ABI of the called contract is loaded, the
\* trace has a single CALL, made by the top-level function itself with the
\* call data of increment(5), and no REVERT.
SimpleExternalCall ==
    /\ "increment" \in function_abis
    /\ Cardinality(StepsOf(ExternalTypes)) = 1
    /\ \A c \in StepsOf(ExternalTypes) :
          /\ CallsIncrement5(trace[c + 1])
          /\ \A k \in 0..c : trace[k + 1].op # "JUMPDEST"
    /\ StepsOf({"REVERT"}) = {}

RECURSIVE ExternalParent(_, _)
ExternalParent(id, seen) ==
    LET p == F(id).parent_call_id
    IN IF p \notin Ids \ seen THEN None
       ELSE IF F(p).call_type \in ExternalTypes THEN p
       ELSE ExternalParent(p, seen \cup {p})

\* Every declared parameter type of a function is fixed-size.
AllFixedSize(name) ==
    \A k \in 1..Len(AbiInputs(name)) :
        AbiInputs(name)[k].type \in {"uint256", "address", "bool", "bytes32"}

\* An internal frame of a function of the ABI with parameters of fixed-size
\* types, entered with values on the stack.
DecodedInternal(id) ==
    /\ F(id).call_type = "internal"
    /\ F(id).name[1] \in function_abis
    /\ AllFixedSize(F(id).name[1])
    /\ trace[F(id).entry_step + 1].stack # <<>>

ArgsFromStack(id) ==
    LET step == trace[F(id).entry_step + 1]
        inputs_ == AbiInputs(F(id).name[1])
    IN [k \in 1..Len(inputs_) |->
          <<inputs_[k].name, IF Len(step.stack) >= k THEN FromTop(step, k) ELSE None>>]

InternalFrames == {id \in Ids : F(id).call_type = "internal"}

\* The step before step k is a JUMP or JUMPI whose target is the pc of step k.
JumpedTo(k) ==
    /\ k > 0
    /\ trace[k].op \in {"JUMP", "JUMPI"}
    /\ trace[k].stack # <<>>
    /\ FromTop(trace[k], 1) = trace[k + 1].pc

\* C21: an internal frame is created at a JUMPDEST step only if that
\* JUMPDEST was jumped to (the step before it is a JUMP or JUMPI whose target
\* is its pc); a JUMPDEST reached by fall-through opens no frame.
C21_OnlyJumpedTo ==
    \A id \in InternalFrames : JumpedTo(F(id).entry_step)

\* C22: call_stack never holds two open internal frames with the same
\* function name in the same contract.
C22_NoDuplicateOpenInternal ==
    \A j, k \in 1..Len(call_stack) :
        LET a == F(call_stack[j])
            b == F(call_stack[k])
        IN (/\ j # k
            /\ a.call_type = "internal" /\ b.call_type = "internal"
            /\ a.exit_step = None /\ b.exit_step = None
            /\ a.contract_address = b.contract_address) => a.name # b.name

\* A JUMPDEST of a function was met again (a jump back to it) while its
\* frame was open, with the frame of another function opened in between, and
\* no frame was opened for it.
C22_Witness ==
    /\ at = "loop" /\ i >= 5
    /\ trace[i].op = "JUMPDEST"
    /\ JumpedTo(i - 1)
    /\ \E j, k \in 1..Len(call_stack) :
          /\ j < k
          /\ F(call_stack[j]).name = <<FunctionAt("A", trace[i].pc)>>
          /\ F(call_stack[j]).call_type = "internal"
          /\ F(call_stack[j]).contract_address = current_contract
          /\ F(call_stack[k]).call_type = "internal"
    /\ \A id \in InternalFrames : F(id).entry_step # i - 1

\* The value ETHDebug locates for a parameter of frame id at its entry pc
\* (None when it gives no location), under the debug info of the frame's
\* contract.
EthdebugValue(id, param) ==
    LET step == trace[F(id).entry_step + 1]
        info == IF F(id).contract_address \in Registry /\ (multi_contract_parser \/ ethdebug_info # NoAddr)
                   THEN F(id).contract_address ELSE NoAddr
    IN find_parameter_value_from_ethdebug(step, info, param.name, param.type)

\* C23: when ETHDebug gives a location for a parameter name at an internal
\* frame's entry pc, the recorded argument is the value decoded from that
\* location, before inheritance from the parent and before stack-position
\* inference.
C23_EthdebugLocationFirst ==
    \A id \in InternalFrames :
        (F(id).name[1] \in function_abis) =>
            \A k \in 1..Len(AbiInputs(F(id).name[1])) :
                LET param == AbiInputs(F(id).name[1])[k]
                IN (EthdebugValue(id, param) # None) =>
                      /\ param.name \in ArgNames(F(id).args)
                      /\ ArgValue(F(id).args, param.name) = EthdebugValue(id, param)

CalleeEnd(id) ==
    LET ends == {k \in (F(id).entry_step + 1)..(Len(trace) - 1) :
                    /\ trace[k + 1].op \in ExitOps
                    /\ trace[k + 1].depth = trace[F(id).entry_step + 1].depth + 1}
    IN IF ends = {} THEN None ELSE CHOOSE k \in ends : \A j \in ends : k <= j

\* The RETURN data of a step, read from memory as a number: length bytes
\* (the second word from the top of the stack) at the offset on top.
ReturnData(step) ==
    WordValue(Slice(step.memory, FromTop(step, 1) \div 4,
                    (FromTop(step, 1) + FromTop(step, 2)) \div 4))

\* C25: an external-call frame whose callee ends with RETURN has a return
\* value recorded; for a call of increment, whose ABI output type is known,
\* it is the RETURN data read from memory and decoded as uint256.
C25_ReturnValueRecorded ==
    Returned =>
        \A id \in ExternalFrames :
            LET r == CalleeEnd(id)
            IN (/\ FunctionNameOf(F(id).name) = "increment"
                /\ r # None
                /\ trace[r + 1].op = "RETURN"
                /\ Len(trace[r + 1].stack) = 2
                /\ trace[r + 1].memory # <<>>) =>
                   /\ F(id).return_value # None
                   /\ F(id).return_value = ReturnData(trace[r + 1])

\* The steps among the ten after step c that push a non-zero 20-byte value.
AddressPushes(c) ==
    {k \in (c + 1)..Min(c + 10, Len(trace) - 1) :
        /\ trace[k + 1].op = "PUSH20"
        /\ trace[k + 1].stack # <<>>
        /\ FromTop(trace[k + 1], 1) # 0}

\* The pass has gone through step c, or stopped at it.
Processed(c) ==
    \/ at = "raised" /\ i >= c
    \/ at = "loop" /\ i > c
    \/ at \in {"end", "post", "returned"}

\* C26: for a CREATE/CREATE2 step c, the create frame's contract_address is
\* the address pushed by the first of the next ten steps that pushes a
\* non-zero 20-byte value; when there is no such step the address is absent
\* and the frame is still created.
C26_CreatedAddress ==
    \A c \in StepsOf(CreateOps) :
        (Processed(c) /\ HasCreateOperands(trace[c + 1])) =>
            \E id \in Ids :
                /\ F(id).call_type \in CreateOps
                /\ F(id).entry_step = c
                /\ F(id).contract_address =
                      IF AddressPushes(c) = {} THEN NoAddr
                      ELSE extract_address_from_stack(
                              FromTop(trace[(CHOOSE k \in AddressPushes(c) :
                                                \A j \in AddressPushes(c) : k <= j) + 1], 1))

\* A pair of types matches by the three rules: the same type; a parsed
\* type wholly enclosed in parentheses against the declared type tuple; two
\* array types whose base types match by these rules.
RECURSIVE PairMatches(_, _)
PairMatches(parsed_type, abi_type) ==
    \/ parsed_type = abi_type
    \/ /\ parsed_type # <<>>
       /\ parsed_type[1] = "(" /\ Last(parsed_type) = ")"
       /\ abi_type = <<"tuple">>
    \/ /\ parsed_type # <<>> /\ abi_type # <<>>
       /\ Last(parsed_type) = "[]" /\ Last(abi_type) = "[]"
       /\ PairMatches(Front(parsed_type), Front(abi_type))

\* C27: match_abi_types(parsed, abi) is true exactly when both lists have
\* the same length and every pair matches by the three rules.
C27_MatchExactly ==
    (pure_call.fn = "match_abi_types" /\ pure_result.returned) =>
        (pure_result.value <=>
            /\ Len(pure_call.parsed_types) = Len(pure_call.abi_types)
            /\ \A k \in 1..Len(pure_call.parsed_types) :
                  PairMatches(pure_call.parsed_types[k], pure_call.abi_types[k]))

\* C28: for every fixed-size type, decode_value of the ABI word of v
\* returns v: for a signed type every v of its range, -1 included, and 0,
\* the maximum, an address and true and false.
C28_DecodeRoundTrip ==
    (pure_call.fn = "decode_value" /\ pure_result.returned) =>
        pure_result.value = pure_call.v

\* The frames in order of creation carry the ids 0, 1, 2, ...
IdsInOrderOfCreation(fr) == \A k \in 1..Len(fr) : fr[k].call_id = k - 1

\* The returned list holds each frame once.
PairwiseDistinct(fcs) == \A j, k \in 1..Len(fcs) : j # k => fcs[j] # fcs[k]

C30_PushThenPop ==
    [][/\ pure_call'.fn = "push_context" => pure_result'.value # NoContext
       /\ (pure_call.fn = "push_context" /\ pure_call'.fn = "get_current_context") =>
             /\ pure_result'.value = pure_result.value
             /\ pure_result'.value # NoContext
       /\ (pure_call.fn = "push_context" /\ pure_call'.fn = "pop_context") =>
             /\ pure_result'.value = pure_result.value
             /\ execution_stack' = pure_call.before
       /\ (pure_call'.fn = "pop_context" /\ execution_stack = <<>>) =>
             /\ pure_result'.value = NoContext
             /\ execution_stack' = <<>>]_vars

\* C34: along parent links depth strictly increases: every frame of the
\* result with a parent is deeper than the frame its parent_call_id names
\* and than every frame whose children_call_ids lists it.
C34_DeeperThanParent ==
    Returned =>
        \A k \in 1..Len(frames) :
            /\ frames[k].parent_call_id # None =>
                  frames[k].depth > frames[frames[k].parent_call_id + 1].depth
            /\ \A p \in 1..Len(frames) :
                  (\E c \in 1..Len(frames[p].children_call_ids) :
                       frames[p].children_call_ids[c] = frames[k].call_id) =>
                      frames[k].depth > frames[p].depth

\* C35: the depth recorded on every external-call and create frame is the
\* EVM call depth of the step at its entry_step plus one, whatever calls
\* were opened and closed before it, calls that caused no EVM depth change
\* included.
C35_DepthTracksEvm ==
    \A k \in 1..Len(frames) :
        (frames[k].call_type \in ExternalTypes \cup CreateOps) =>
            frames[k].depth = trace[frames[k].entry_step + 1].depth + 1

\* The external-call and create frames a step of the loop closes.
ClosedByStep ==
    {k \in 1..Len(frames) : /\ frames[k].call_type \in ExternalTypes \cup CreateOps
                            /\ frames[k].exit_step = None
                            /\ frames'[k].exit_step # None}
\* The step opens an external-call or create frame after closing.
OpenedByStep ==
    IF Len(frames') > Len(frames) /\ Last(frames').call_type \in ExternalTypes \cup CreateOps
       THEN 1 ELSE 0
OutermostClosed == CHOOSE k \in ClosedByStep : \A m \in ClosedByStep : frames[k].depth <= frames[m].depth

\* C36: whenever an external-call or create frame is closed, the context
\* restored is the one saved when that frame was opened, never one saved
\* for another frame.  The context saved for a frame holds the depth the
\* frame was opened at, its own depth less one: after a step of the loop
\* that closes such frames the pass is back at the depth saved for the
\* outermost of them (one more when the step then opens a frame).
C36_RestoresOwnContext ==
    [][(at = "loop" /\ at' \in {"loop", "end"} /\ ClosedByStep # {}) =>
           current_depth' = frames[OutermostClosed].depth - 1 + OpenedByStep]_vars

\* The memory range a call step's own operands name: argsOffset and
\* argsSize are the fourth and fifth operands of CALL, after the value, and
\* the third and fourth of DELEGATECALL and STATICCALL.
OwnCalldata(step) ==
    LET args_offset == IF step.op = "CALL" THEN FromTop(step, 4) ELSE FromTop(step, 3)
        args_size == IF step.op = "CALL" THEN FromTop(step, 5) ELSE FromTop(step, 4)
    IN Slice(step.memory, args_offset \div 4, (args_offset + args_size) \div 4)

\* C37: for every CALL, DELEGATECALL and STATICCALL step the call data used
\* for selector matching and argument decoding is the memory range given
\* by the opcode's own argsOffset and argsSize operands: the frame's
\* selector and arguments are those of that range.
C37_CalldataFromOwnOperands ==
    \A id \in ExternalFrames :
        LET calldata == OwnCalldata(trace[F(id).entry_step + 1])
            selector == IF calldata = <<>> THEN None ELSE calldata[1]
            known == {name \in function_abis : SelectorOf(name) = selector}
        IN /\ F(id).selector = selector
           /\ F(id).args = IF known # {}
                              THEN decode_function_parameters(CHOOSE name \in known : TRUE,
                                                              Tail(calldata))
                           ELSE <<>>

\* The debug info the session had loaded when the first analysis began.
InfoAtStart == IF multi_contract_parser /\ to_addr \in Registry THEN to_addr ELSE NoAddr

\* C38: analyze_function_calls leaves the tracer's session state as it
\* found it: when it returns, the active ethdebug_info (with its parser) and
\* the execution_stack equal their values at the start of the call, also
\* for traces that end while a callee is still executing.
C38_SessionStateKept ==
    /\ (pass = 1 /\ at \in {"evm", "analyze"}) => ethdebug_info = InfoAtStart
    /\ (pass = 1 /\ Returned) => (ethdebug_info = InfoAtStart /\ execution_stack = <<>>)

\* Frame id inherits nothing: its parent is no external-call frame with
\* arguments calling the function the frame is named after.
NothingInherited(id) ==
    LET p == F(id).parent_call_id
    IN ~(/\ p # None
         /\ F(p).call_type \in ExternalTypes
         /\ F(p).args # <<>>
         /\ FunctionNameOf(F(p).name) = F(id).name[1])

\* C39: stack-position inference for an internal frame with N fixed-size
\* parameters and nothing inherited reads parameter k (from 0, in
\* declaration order) from the k-th of the topmost N stack slots counted
\* from the deepest: the first declared parameter from the deepest of those
\* slots, the last from the top of the stack.
C39_ParametersInDeclarationOrder ==
    \A id \in InternalFrames :
        LET stack == trace[F(id).entry_step + 1].stack
            N == Len(AbiInputs(F(id).name[1]))
        IN (DecodedInternal(id) /\ NothingInherited(id) /\ Len(stack) >= N) =>
              F(id).args = [k \in 1..N |->
                              <<AbiInputs(F(id).name[1])[k].name, stack[Len(stack) - N + k]>>]


(***************************************************************************)
(* The interactive stepper: EVMDebugger over a loaded trace and the frame  *)
(* list of the pass.  A command that raises ends the command loop.         *)
(***************************************************************************)
MaxReplSteps == 3      \* longest trace loaded into the stepper

ReplPcs == 0..2

\* ETHDebugParser.get_source_context(pc)['line'] and the line of
\* source_map[pc]: program counter 1 comes from line 10, 2 from line 11
\* and 0 from no line.
LineAt(jpc) == IF jpc = 1 THEN 10 ELSE IF jpc = 2 THEN 11 ELSE None

MappedPcs == {jpc \in ReplPcs : LineAt(jpc) # None}

\* A step of the loaded trace.  trace_transaction and simulate_call_trace
\* build every TraceStep without the error argument, so the field keeps its
\* default None.
ReplStep(jpc) ==
    [op |-> "PUSH1", depth |-> 1, gas |-> InitGas, pc |-> jpc,
     stack |-> <<>>, memory |-> <<>>, error |-> FALSE]

ReplSteps == {ReplStep(jpc) : jpc \in ReplPcs}

ReplTraces == UNION {[1..n -> ReplSteps] : n \in 1..MaxReplSteps}

TypeError == [returned |-> FALSE, raised |-> "TypeError"]

\* self.function_trace: the frames in list order.
function_trace == [k \in 1..Len(function_calls) |-> frames[function_calls[k] + 1]]

\* func.exit_step or len(self.current_trace.steps)
ExitOrLen(func) == IF func.exit_step = None \/ func.exit_step = 0 THEN Len(trace) ELSE func.exit_step

\* func.entry_step <= step <= (func.exit_step or len(steps)), for integers
Active(func, step) == func.entry_step <= step /\ step <= ExitOrLen(func)

\* _update_current_function raises when the scan reaches a frame without
\* entry_step before a frame that matches.
UpdateRaises(step) ==
    \E k \in 1..Len(function_trace) :
        /\ function_trace[k].entry_step = None
        /\ \A m \in 1..(k - 1) : ~Active(function_trace[m], step)

_get_source_line_for_step(step_index) ==
    IF step_index >= Len(trace) THEN None
    ELSE LET step == trace[step_index + 1]
         IN IF ethdebug_info # NoAddr THEN LineAt(step.pc)
            ELSE IF source_map # {}
                THEN (IF step.pc \in source_map THEN LineAt(step.pc) ELSE None)
            ELSE None

ReplOnly == UNCHANGED <<trace, to_addr, has_selector, multi_contract_parser, function_abis, ethdebug_info,
                        evm, evm_gas, pass, locals, first_result, execution_stack, source_map>>

\* The command moved to step and updates the current function.
MovedTo(step) ==
    /\ current_step' = step
    /\ IF UpdateRaises(step)
          THEN at' = "raised" /\ pure_result' = TypeError
          ELSE at' = "repl" /\ Return(None)

Stays == current_step' = current_step /\ at' = "repl" /\ Return(None)

Raises == current_step' = current_step /\ at' = "raised" /\ pure_result' = TypeError

\* nexti: one instruction further, lines 305-318.
nexti ==
    IF current_step = None THEN Raises
    ELSE IF current_step >= Len(trace) - 1 THEN Stays
    ELSE MovedTo(current_step + 1)

do_nexti ==
    /\ at = "repl"
    /\ pure_call' = [fn |-> "do_nexti", before |-> current_step]
    /\ nexti
    /\ UNCHANGED breakpoints
    /\ ReplOnly

StopsContinue_ErrorOnly(step) == step.error

\* The loop of continue stops at a step on a breakpoint or with an error.
StopsContinue(step) == step.pc \in breakpoints \/ step.error

do_continue ==
    /\ at = "repl"
    /\ pure_call' = [fn |-> "do_continue", before |-> current_step]
    /\ IF current_step = None THEN Raises
       ELSE IF current_step >= Len(trace) - 1 THEN Stays
       ELSE LET stops == {j \in (current_step + 1)..(Len(trace) - 1) : StopsContinue(trace[j + 1])}
            IN /\ current_step' = IF stops = {} THEN Len(trace) - 1
                                  ELSE CHOOSE j \in stops : \A m \in stops : j <= m
               /\ at' = "repl" /\ Return(None)
    /\ UNCHANGED breakpoints
    /\ ReplOnly

StopsNext_AnyKnownLine(step_index, current_line) ==
    _get_source_line_for_step(step_index) # None

\* The loop of next stops at a step with a known line other than current_line.
StopsNext(step_index, current_line) ==
    /\ _get_source_line_for_step(step_index) # None
    /\ _get_source_line_for_step(step_index) # current_line

do_next ==
    /\ at = "repl"
    /\ pure_call' = [fn |-> "do_next", before |-> current_step]
    /\ IF current_step = None THEN Raises
       ELSE IF current_step >= Len(trace) - 1 THEN Stays
       ELSE IF source_map = {} THEN nexti
       ELSE LET current_line == _get_source_line_for_step(current_step)
                stops == {j \in (current_step + 1)..(Len(trace) - 1) : StopsNext(j, current_line)}
            IN IF current_line = None THEN nexti
               ELSE IF stops # {} THEN MovedTo(CHOOSE j \in stops : \A m \in stops : j <= m)
               ELSE MovedTo(Len(trace) - 1)
    /\ UNCHANGED breakpoints
    /\ ReplOnly

\* What break is given: a program counter, file:line or a function name.
BreakArgs ==
    {[kind |-> "pc", pc |-> jpc] : jpc \in ReplPcs}
        \cup {[kind |-> "line", line |-> l] : l \in {10, 12}}
        \cup {[kind |-> "name", name |-> n] : n \in {<<"Contract", "runtime_dispatcher">>, MainName}}

do_break ==
    /\ at = "repl"
    /\ \E arg \in BreakArgs :
          /\ pure_call' = [fn |-> "do_break", arg |-> arg]
          /\ LET named == {k \in 1..Len(function_trace) :
                              arg.kind = "name" /\ function_trace[k].name = arg.name}
                 func == function_trace[CHOOSE k \in named : \A m \in named : k <= m]
                 lined == {jpc \in source_map : arg.kind = "line" /\ LineAt(jpc) = arg.line}
             IN IF named # {}
                   THEN IF func.entry_step = None
                           THEN /\ breakpoints' = breakpoints
                                /\ at' = "raised" /\ pure_result' = TypeError
                           ELSE /\ breakpoints' = breakpoints \cup {trace[func.entry_step + 1].pc}
                                /\ at' = "repl" /\ Return(None)
                ELSE /\ breakpoints' =
                            IF arg.kind = "line"
                               THEN (IF lined = {} THEN breakpoints
                                     ELSE breakpoints \cup {CHOOSE jpc \in lined : \A m \in lined : jpc <= m})
                            ELSE IF arg.kind = "pc" THEN breakpoints \cup {arg.pc}
                            ELSE breakpoints
                     /\ at' = "repl" /\ Return(None)
    /\ UNCHANGED current_step
    /\ ReplOnly

do_clear ==
    /\ at = "repl"
    /\ \E jpc \in ReplPcs :
          /\ pure_call' = [fn |-> "do_clear", arg |-> [kind |-> "pc", pc |-> jpc]]
          /\ breakpoints' = breakpoints \ {jpc}
    /\ at' = "repl" /\ Return(None)
    /\ UNCHANGED current_step
    /\ ReplOnly

\* A trace without calls loaded with its frame list, the dispatcher frame
\* alone: no debug info, a debug file, or ETHDebug info of the contract.
InitStepper ==
    /\ to_addr = "A" /\ has_selector = FALSE /\ multi_contract_parser = FALSE
    /\ function_abis = {}
    /\ \E mode \in {[info |-> NoAddr, map |-> {}], [info |-> NoAddr, map |-> MappedPcs],
                    [info |-> "A", map |-> MappedPcs]} :
          ethdebug_info = mode.info /\ source_map = mode.map
    /\ trace \in ReplTraces
    /\ evm = <<>>
    /\ evm_gas = InitGas
    /\ at = "repl"
    /\ pass = 1
    /\ i = Len(trace)
    /\ frames = <<_create_dispatcher_call>>
    /\ function_calls = <<0>>
    /\ call_stack = <<>>
    /\ next_call_id = 1
    /\ current_contract = "A"
    /\ current_depth = 0
    /\ context_stack = <<>>
    /\ revert_already_marked = FALSE
    /\ prev_depth = 1
    /\ first_result = [frames |-> frames, function_calls |-> function_calls]
    /\ pure_call = NoCall /\ pure_result = NoResult /\ execution_stack = <<>>
    /\ current_step = 0
    /\ breakpoints = {}

NextStepper == do_break \/ do_clear \/ do_continue \/ do_next \/ do_nexti

SpecStepper == InitStepper /\ [][NextStepper]_vars


\* run: after the trace is loaded and analysed the position is 0, or the
\* entry step of the second frame of the list when there is one (lines
\* 160-172).  _show_current_state raises when that entry is None; the
\* except clause of line 175 keeps the session going.
do_run ==
    /\ at = "returned"
    /\ pure_call' = [fn |-> "do_run", before |-> current_step]
    /\ current_step' = IF Len(function_trace) > 1 THEN function_trace[2].entry_step ELSE 0
    /\ at' = "repl" /\ Return(None)
    /\ UNCHANGED breakpoints
    /\ ReplOnly

\* The frames where lists, by call_id in list order.
active_calls(step) ==
    SelectSeq(function_calls, LAMBDA id : Active(frames[id + 1], step))

\* where: lines 646-686.  The comparison of line 659 raises when the
\* position or the entry step of a frame is None.
do_where ==
    /\ at = "repl"
    /\ pure_call' = [fn |-> "do_where", before |-> current_step]
    /\ IF function_calls = <<>>
          THEN at' = "repl" /\ pure_result' = [returned |-> TRUE, value |-> None, active_calls |-> <<>>]
       ELSE IF current_step = None \/ \E k \in 1..Len(function_trace) : function_trace[k].entry_step = None
          THEN at' = "raised" /\ pure_result' = TypeError
       ELSE /\ at' = "repl"
            /\ pure_result' = [returned |-> TRUE, value |-> None,
                               active_calls |-> active_calls(current_step)]
    /\ UNCHANGED <<current_step, breakpoints>>
    /\ ReplOnly

NextWhere ==
    \/ EvmPlain \/ EvmCall \/ EvmCreate \/ EvmCallFails \/ EvmExit \/ EvmFault
    \/ Begin
    \/ StepExternalCall \/ StepCreate \/ StepJumpdest \/ StepExit \/ StepOther
    \/ EndOfTrace \/ PostPass
    \/ do_run \/ do_nexti \/ do_where

SpecWhere == Init /\ [][NextWhere]_vars

\* C31: continue from step s with breakpoint set B, whatever break and clear
\* commands built B, leaves current_step at the smallest index j > s whose
\* program counter is in B, or at the last step when there is none; it
\* stops before that only at a step carrying an error, and so never passes
\* over a step whose program counter is in B.
C31_ContinueToBreakpoint ==
    pure_call.fn = "do_continue" =>
        LET s == pure_call.before
            hits == {j \in (s + 1)..(Len(trace) - 1) : trace[j + 1].pc \in breakpoints}
            target == IF hits = {} THEN Len(trace) - 1 ELSE CHOOSE j \in hits : \A m \in hits : j <= m
        IN \/ current_step = target
           \/ /\ current_step \in (s + 1)..target
              /\ trace[current_step + 1].error

C31_Witness ==
    /\ pure_call.fn = "do_continue" /\ pure_call.before = 0
    /\ Len(trace) = 3 /\ current_step = 1
    /\ trace[2].pc \in breakpoints /\ trace[1].pc \notin breakpoints

\* C32: next from a step whose source line is known leaves current_step at
\* the smallest later index whose line is known and differs from the
\* starting line, when there is one; every step passed over has the
\* starting line or no line.
C32_NextToOtherLine ==
    (pure_call.fn = "do_next" /\ _get_source_line_for_step(pure_call.before) # None) =>
        LET s == pure_call.before
            line == _get_source_line_for_step(s)
            others == {j \in (s + 1)..(Len(trace) - 1) :
                          _get_source_line_for_step(j) \notin {None, line}}
        IN /\ others # {} => current_step = CHOOSE j \in others : \A m \in others : j <= m
           /\ \A j \in (s + 1)..(current_step - 1) : _get_source_line_for_step(j) \in {None, line}

C32_Witness ==
    /\ pure_call.fn = "do_next" /\ pure_call.before = 0
    /\ Len(trace) = 3 /\ current_step = 2
    /\ _get_source_line_for_step(0) = 10
    /\ _get_source_line_for_step(1) = None
    /\ _get_source_line_for_step(2) = 11

\* C40: next from a step with a known line, when no later step has another
\* known line, leaves current_step where it was before the command.
C40_NextResetsPosition ==
    (/\ pure_call.fn = "do_next"
     /\ _get_source_line_for_step(pure_call.before) # None
     /\ \A j \in (pure_call.before + 1)..(Len(trace) - 1) :
           _get_source_line_for_step(j) \in {None, _get_source_line_for_step(pure_call.before)})
        => current_step = pure_call.before

\* C33: for every frame list the pass returns and every current step s,
\* where completes without error and lists exactly the frames whose
\* [entry_step, exit_step] contains s.
C33_WhereListsActiveFrames ==
    pure_call.fn = "do_where" =>
        /\ pure_result.returned
        /\ pure_result.active_calls =
              SelectSeq(function_calls,
                        LAMBDA id : /\ frames[id + 1].entry_step # None
                                    /\ frames[id + 1].entry_step <= pure_call.before
                                    /\ pure_call.before <= frames[id + 1].exit_step)
====
